---- MODULE Spec2Model ----
(***************************************************************************)
(* A model of ccusage-rs (src/src/main.rs): the live tail source           *)
(* (LiveEventSource), the pricing index and the report builders.           *)
(*                                                                         *)
(* SpecLive   : the file system, the initial batch load and the live       *)
(*              source's refresh cycles.                                   *)
(* SpecReport : the daily, weekly, monthly, sessions and blocks reports    *)
(*              built from a list of usage events.                         *)
(* SpecPricing: build_pricing_index, normalize_model_for_pricing and      *)
(*              PricingIndex::find, as calculate_cost uses them; a record  *)
(*              and a log file on their way through to_usage_event,        *)
(*              load_events and read_new_events.                           *)
(* SpecMain   : main from the command line to the report: the time zone,   *)
(*              load_pricing, the log files, the date filter.              *)
(* SpecTui    : run_blocks_live_tui, the terminal and the refresh loop.    *)
(***************************************************************************)
EXTENDS Integers, Sequences, FiniteSets, TLC

VARIABLES
    present,    \* the .jsonl files that exist under the data directories
    content,    \* file -> its bytes
    pc,         \* where main is: "start", "loaded", "live" (in the loop of
                \* run_blocks_live_cli or run_blocks_live_tui), "failed"
    files,      \* main's `files`: what collect_jsonl_files returned at start-up
    offsets,    \* LiveEventSource.offsets: file -> last read byte offset
    events,     \* LiveEventSource.events (main's `events` before live mode)
    last,       \* the last step taken and how it ended
    written,    \* bytes written so far (bounds the model)
    truncs,     \* truncations so far (bounds the model)
    streak,     \* successful refreshes in a row with no write in between (up to 2)
    sinceLoad,  \* TRUE when a file changed after the initial load
    intact,     \* file -> TRUE while the file has only ever been appended to
    coldClean,  \* TRUE when no file changed between the load and from_existing
                \* and none ended in a half-written line then
    replaced    \* file -> <<the bytes it held>> when the file was replaced by a
                \* new one after the source last looked at it, <<>> otherwise

VARIABLES
    ppc,        \* pricing: "raw" (table loaded), "built" (index built), "found"
                \* (a price looked up), "event" (a record normalized), "ingested"
                \* (a log file read on the batch path and on the live path)
    raw,        \* the raw price table load_pricing returned: key -> Pricing
    index,      \* PRICING_INDEX: PricingIndex.entries, a sequence of <<key, Pricing>>
    model,      \* the model name of the record being priced
    normalized, \* calculate_cost's `normalized`
    pricing,    \* calculate_cost's `pricing`: <<>> (None) or <<Pricing>>
    cost_mode,  \* COST_MODE, set once at start-up
    record,     \* the RawRecord handed to to_usage_event: <<>> or <<record>>
    event,      \* what to_usage_event returned: <<>> (None) or <<UsageEvent>>
    log,        \* the lines of a log file
    loaded,     \* the events load_events returned for the file
    tailed      \* the events read_new_events returned for the file, from offset 0

VARIABLES
    rpc,        \* reports: "loading" (events being loaded), "reported", "panicked"
    usage,      \* main's `events`, the usage events the report is built from
    opts,       \* the resolved options of the command
    report      \* the report built

VARIABLES
    mpc,        \* main: "start", "pricing", "files", "events", "range", "report",
                \* "returned"
    argv,       \* the command line: --timezone, --since, --until, --offline
    world,      \* what main finds: the data directory root, the log files and
                \* usage lines under it, the pricing cache file, the remote dataset
    table,      \* where load_pricing took the price table from: <<>> or <<source>>
    status,     \* what main returned: "running", "ok", "error"
    out         \* what main printed: "nothing", "no-files", "no-usage", "report"

VARIABLES
    tpc,        \* run_blocks_live_tui: "raw", "screen", "terminal", "refresh",
                \* "draw", "poll", "wait", "restore", "returned"
    raw_mode,   \* the terminal is in raw mode
    alternate_screen, \* the terminal shows the alternate screen
    term_events,\* the terminal events not yet read (key presses and releases)
    rx,         \* the watcher's channel: "empty", "notified", "disconnected"
    unread,     \* file -> the complete lines written and not yet read
    store,      \* the live source: file -> [events, offset], in lines
    quit_read,  \* TRUE once a press of q or Esc was read
    tres        \* what run_blocks_live_tui returned: "none", "ok", "err"

liveVars == <<present, content, pc, files, offsets, events, last, written,
              truncs, streak, sinceLoad, intact, coldClean, replaced>>

pathVars == <<log, loaded, tailed>>

pricingVars == <<ppc, raw, index, model, normalized, pricing, cost_mode, record, event,
                 pathVars>>

reportVars == <<rpc, usage, opts, report>>

mainVars == <<mpc, argv, world, table, status, out>>

tuiVars == <<tpc, raw_mode, alternate_screen, term_events, rx, unread, store, quit_read,
             tres>>

vars == <<liveVars, pricingVars, reportVars, mainVars, tuiVars>>

\* what the steps of one part of the model leave alone
notLive == <<pricingVars, reportVars, mainVars, tuiVars>>
notPricing == <<liveVars, reportVars, mainVars, tuiVars>>
notReport == <<liveVars, pricingVars, mainVars, tuiVars>>
notMain == <<liveVars, pricingVars, reportVars, tuiVars>>
notTui == <<liveVars, pricingVars, reportVars, mainVars>>

----------------------------------------------------------------------------
(* Bounds *)
MaxBytes == 5
MaxTruncations == 1

----------------------------------------------------------------------------
(* Files and bytes.  A usage record's JSON text is the two bytes "{" "}"   *)
(* (its opening part, which holds the usage object and its input_tokens    *)
(* field, and its closing part); a line ends with "\n".                    *)
Files == { [project |-> "pa", stem |-> "s1"], [project |-> "pb", stem |-> "s2"] }

Bytes == {"{", "}", "\n"}

Min(S) == CHOOSE x \in S : \A y \in S : x <= y

Permutations_of(S) ==
    { s \in [1..Cardinality(S) -> S] : \A i, j \in 1..Cardinality(S) : i # j => s[i] # s[j] }

IsPrefix(s, t) == Len(s) <= Len(t) /\ SubSeq(t, 1, Len(s)) = s

\* str::trim on a line: leading and trailing white space removed
RECURSIVE trim(_)
trim(buf) ==
    IF buf = <<>> THEN buf
    ELSE IF Head(buf) = "\n" THEN trim(Tail(buf))
    ELSE IF buf[Len(buf)] = "\n" THEN trim(SubSeq(buf, 1, Len(buf) - 1))
    ELSE buf

\* serde_json::from_str::<RawRecord>: white space around the one JSON value is
\* skipped; anything but one whole record is an error ("err")
from_str(buf) == IF trim(buf) = <<"{", "}">> THEN "record" ELSE "err"

\* to_usage_event(parsed, project, session_id): the record has a timestamp and a
\* usage object; project and session come from the path
to_usage_event(parsed, project, session_id) ==
    [project |-> project, session_id |-> session_id]

extract_project_name(path) == path.project
file_stem(path) == path.stem

\* collect_jsonl_files: the files that exist now, in the walk's order (any order)
collect_jsonl_files == Permutations_of(present)

----------------------------------------------------------------------------
(* load_events: the batch path *)

\* BufRead::lines: the file split at "\n", the "\n" dropped, a last line with no
\* "\n" included
RECURSIVE lines(_)
lines(bytes) ==
    IF bytes = <<>> THEN <<>>
    ELSE LET nl == { i \in 1..Len(bytes) : bytes[i] = "\n" } IN
         IF nl = {} THEN <<bytes>>
         ELSE <<SubSeq(bytes, 1, Min(nl) - 1)>> \o lines(SubSeq(bytes, Min(nl) + 1, Len(bytes)))

\* line.contains("input_tokens")
contains_input_tokens(line) == \E i \in 1..Len(line) : line[i] = "{"

RECURSIVE load_lines(_, _)
load_lines(ls, path) ==
    IF ls = <<>> THEN <<>>
    ELSE LET line == Head(ls)
             rest == load_lines(Tail(ls), path) IN
         IF ~contains_input_tokens(line) THEN rest
         ELSE IF from_str(line) = "err" THEN rest
         ELSE <<to_usage_event(from_str(line), extract_project_name(path), file_stem(path))>> \o rest

load_file(path) == load_lines(lines(content[path]), path)

RECURSIVE load_events(_)
load_events(fs) ==
    IF fs = <<>> THEN <<>> ELSE load_file(Head(fs)) \o load_events(Tail(fs))

----------------------------------------------------------------------------
(* read_new_events: the live path *)

\* BufRead::read_line at byte `position`: the number of bytes up to and
\* including the next "\n", or up to the end of the file; 0 at the end
ReadLineStopsAtOpenLine(bytes, position) ==
    LET nl == { i \in (position + 1)..Len(bytes) : bytes[i] = "\n" } IN
    IF nl = {} THEN 0 ELSE Min(nl) - position
read_line(bytes, position) ==
    LET n  == Len(bytes)
        nl == { i \in (position + 1)..n : bytes[i] = "\n" } IN
    IF position >= n THEN 0
    ELSE IF nl = {} THEN n - position
    ELSE Min(nl) - position

RECURSIVE read_loop(_, _, _, _)
read_loop(bytes, path, position, evs) ==
    LET n == read_line(bytes, position) IN
    IF n = 0 THEN <<position, evs>>
    ELSE LET buf == SubSeq(bytes, position + 1, position + n) IN
         IF trim(buf) = <<>> THEN read_loop(bytes, path, position + n, evs)
         ELSE IF from_str(buf) = "err" THEN read_loop(bytes, path, position + n, evs)
         ELSE read_loop(bytes, path, position + n,
                        Append(evs, to_usage_event(from_str(buf),
                                                   extract_project_name(path),
                                                   file_stem(path))))

\* <<new offset, new events>>
read_new_events(path, start) == read_loop(content[path], path, start, <<>>)

----------------------------------------------------------------------------
(* LiveEventSource *)

\* refresh, lines 1192-1193: where the read of a file starts
ReadStartAlwaysZero(offs, file, current_len) == 0
ReadStartNoTruncation(offs, file, current_len) ==
    IF file \in DOMAIN offs THEN offs[file] ELSE 0
ReadStartNewFileAtEnd(offs, file, current_len) ==
    LET offset == IF file \in DOMAIN offs THEN offs[file] ELSE current_len IN
    IF current_len < offset THEN 0 ELSE offset
read_start(offs, file, current_len) ==
    LET offset == IF file \in DOMAIN offs THEN offs[file] ELSE 0 IN
    IF current_len < offset THEN 0 ELSE offset

\* refresh, lines 1195-1197: the new events go to the end of the store
AppendReplaces(evs, new_events) == new_events
append(evs, new_events) == evs \o new_events

\* self.offsets.insert(file, new_offset)
insert(offs, file, new_offset) ==
    [f \in DOMAIN offs \cup {file} |-> IF f = file THEN new_offset ELSE offs[f]]

\* from_existing, lines 1168-1174: the offset recorded for a file at start-up
InitialOffsetZero(file) == 0
initial_offset(file) == Len(content[file])

\* The loop body of refresh for the first k files of fs, from the state st.
\* Beside the source's offsets and events, st notes what the cycle did: the
\* files found shorter than their offset (rewound), the files that had no
\* offset yet (discovered) and the byte the read of each file handled
\* started at (start).
RECURSIVE refresh_files(_, _, _)
refresh_files(fs, k, st) ==
    IF k = 0 THEN st
    ELSE LET file        == Head(fs)
             current_len == Len(content[file])
             offset      == IF file \in DOMAIN st.offsets THEN st.offsets[file] ELSE 0
             start       == read_start(st.offsets, file, current_len)
             res         == read_new_events(file, start) IN
         refresh_files(Tail(fs), k - 1,
                       [offsets |-> insert(st.offsets, file, res[1]),
                        events  |-> append(st.events, res[2]),
                        rewound |-> IF current_len < offset
                                    THEN st.rewound \cup {file} ELSE st.rewound,
                        discovered |-> IF file \in DOMAIN st.offsets
                                       THEN st.discovered ELSE st.discovered \cup {file},
                        start   |-> insert(st.start, file, start)])

\* bytes end in a line that has no "\n" yet and is not a whole record
HalfWritten(bytes) ==
    /\ bytes # <<>>
    /\ bytes[Len(bytes)] # "\n"
    /\ from_str(lines(bytes)[Len(lines(bytes))]) = "err"

\* What `last` records of a step
Step(op, ok) == [op |-> op, ok |-> ok, rewound |-> {}, discovered |-> {}, start |-> <<>>]

----------------------------------------------------------------------------
(* The environment: writers of the log files *)

Write(f, b) ==
    /\ f \in present
    /\ written < MaxBytes
    /\ content' = [content EXCEPT ![f] = Append(@, b)]
    /\ written' = written + 1
    /\ streak' = 0
    /\ sinceLoad' = (pc # "start")
    /\ last' = Step("write", TRUE)
    /\ UNCHANGED <<present, pc, files, offsets, events, truncs, intact, coldClean,
                   replaced, notLive>>

Create(f) ==
    /\ f \notin present
    /\ present' = present \cup {f}
    /\ streak' = 0
    /\ sinceLoad' = (pc # "start")
    /\ last' = Step("create", TRUE)
    /\ UNCHANGED <<content, pc, files, offsets, events, written, truncs, intact, coldClean,
                   replaced, notLive>>

\* The file is truncated (or rotated: replaced by a new, empty file that is
\* then written to)
Truncate(f) ==
    /\ f \in present
    /\ content[f] # <<>>
    /\ truncs < MaxTruncations
    /\ content' = [content EXCEPT ![f] = <<>>]
    /\ truncs' = truncs + 1
    /\ intact' = [intact EXCEPT ![f] = FALSE]
    /\ replaced' = [replaced EXCEPT ![f] = IF @ = <<>> THEN <<content[f]>> ELSE @]
    /\ streak' = 0
    /\ sinceLoad' = (pc # "start")
    /\ last' = Step("truncate", TRUE)
    /\ UNCHANGED <<present, pc, files, offsets, events, written, coldClean, notLive>>

----------------------------------------------------------------------------
(* main, lines 489-504, and live mode, lines 665-667 *)

\* collect_jsonl_files and load_events; main returns when there is no file or
\* no event
Load ==
    /\ pc = "start"
    /\ \E fs \in collect_jsonl_files :
         /\ fs # <<>>
         /\ load_events(fs) # <<>>
         /\ files' = fs
         /\ events' = load_events(fs)
    /\ pc' = "loaded"
    /\ sinceLoad' = FALSE
    /\ last' = Step("load", TRUE)
    /\ replaced' = [f \in Files |-> <<>>]
    /\ UNCHANGED <<present, content, offsets, written, truncs, streak, intact, coldClean, notLive>>

\* LiveEventSource::from_existing: every file's current length is its offset;
\* a failing stat ends the run
from_existing ==
    /\ pc = "loaded"
    /\ \/ /\ offsets' = [f \in { files[i] : i \in DOMAIN files } |-> initial_offset(f)]
          /\ coldClean' = (~sinceLoad /\ \A i \in DOMAIN files : ~HalfWritten(content[files[i]]))
          /\ replaced' = [f \in Files |-> IF f \in { files[i] : i \in DOMAIN files } THEN <<>>
                                          ELSE replaced[f]]
          /\ pc' = "live"
          /\ last' = Step("from_existing", TRUE)
       \/ /\ pc' = "failed"
          /\ last' = Step("from_existing", FALSE)
          /\ UNCHANGED <<offsets, coldClean, replaced>>
    /\ UNCHANGED <<present, content, files, events, written, truncs, streak,
                   sinceLoad, intact, notLive>>

\* LiveEventSource::refresh, called from the loop of run_blocks_live_cli or
\* run_blocks_live_tui: the files are handled in the walk's order; a stat, open
\* or read error at a file ends the cycle there, with the files before it done,
\* and the loop returns the error (live_source.refresh()?), which ends the run
refresh ==
    /\ pc = "live"
    /\ \E fs \in collect_jsonl_files :
       \E k \in 0..Len(fs) :
         LET st == refresh_files(fs, k, [offsets |-> offsets, events |-> events,
                                         rewound |-> {}, discovered |-> {},
                                         start |-> <<>>]) IN
         /\ offsets' = st.offsets
         /\ events' = st.events
         /\ last' = [op |-> "refresh", ok |-> (k = Len(fs)), rewound |-> st.rewound,
                     discovered |-> st.discovered, start |-> st.start]
         /\ streak' = IF k = Len(fs) THEN (IF streak < 2 THEN streak + 1 ELSE 2) ELSE 0
         /\ replaced' = [f \in Files |-> IF f \in DOMAIN st.start THEN <<>> ELSE replaced[f]]
         /\ pc' = IF k = Len(fs) THEN "live" ELSE "failed"
    /\ UNCHANGED <<present, content, files, written, truncs, sinceLoad, intact, coldClean, notLive>>

----------------------------------------------------------------------------
PricingIdle ==
    /\ ppc = "idle"
    /\ raw = <<>>
    /\ index = <<>>
    /\ model = <<>>
    /\ normalized = <<>>
    /\ pricing = <<>>
    /\ cost_mode = "auto"
    /\ record = <<>>
    /\ event = <<>>
    /\ log = <<>>
    /\ loaded = <<>>
    /\ tailed = <<>>

ReportIdle ==
    /\ rpc = "idle"
    /\ usage = <<>>
    /\ opts = <<>>
    /\ report = <<>>

MainIdle ==
    /\ mpc = "idle"
    /\ argv = <<>>
    /\ world = <<>>
    /\ table = <<>>
    /\ status = "running"
    /\ out = "nothing"

TuiIdle ==
    /\ tpc = "idle"
    /\ raw_mode = FALSE
    /\ alternate_screen = FALSE
    /\ term_events = <<>>
    /\ rx = "empty"
    /\ unread = <<>>
    /\ store = <<>>
    /\ quit_read = FALSE
    /\ tres = "none"

InitLive ==
    /\ PricingIdle
    /\ ReportIdle
    /\ MainIdle
    /\ TuiIdle
    /\ present \in SUBSET Files
    /\ present # {}
    /\ content = [f \in Files |-> <<>>]
    /\ pc = "start"
    /\ files = <<>>
    /\ offsets = <<>>
    /\ events = <<>>
    /\ last = Step("init", TRUE)
    /\ written = 0
    /\ truncs = 0
    /\ streak = 0
    /\ sinceLoad = FALSE
    /\ intact = [f \in Files |-> TRUE]
    /\ coldClean = FALSE
    /\ replaced = [f \in Files |-> <<>>]

NextLive ==
    \/ \E f \in Files, b \in Bytes : Write(f, b)
    \/ \E f \in Files : Create(f)
    \/ \E f \in Files : Truncate(f)
    \/ Load
    \/ from_existing
    \/ refresh

SpecLive == InitLive /\ [][NextLive]_vars

----------------------------------------------------------------------------
(* Properties of the live source *)

Range(s) == { s[i] : i \in DOMAIN s }

Max(a, b) == IF a >= b THEN a ELSE b

\* the number of events of evs that come from file f
RECURSIVE CountOf(_, _)
CountOf(f, evs) ==
    IF evs = <<>> THEN 0
    ELSE (IF Head(evs) = to_usage_event("record", f.project, f.stem) THEN 1 ELSE 0)
         + CountOf(f, Tail(evs))

\* the number of lines of bytes that hold one whole usage record
RECURSIVE CountRecords(_)
CountRecords(ls) ==
    IF ls = <<>> THEN 0
    ELSE (IF from_str(Head(ls)) = "record" THEN 1 ELSE 0) + CountRecords(Tail(ls))

UsageLines(bytes) == CountRecords(lines(bytes))

\* the byte position just after the last "\n" of bytes (0 when there is none)
CompleteEnd(bytes) ==
    LET nl == { i \in 1..Len(bytes) : bytes[i] = "\n" } IN
    IF nl = {} THEN 0 ELSE CHOOSE i \in nl : \A j \in nl : j <= i

CompleteUsageLines(bytes) == UsageLines(SubSeq(bytes, 1, CompleteEnd(bytes)))

HasOpenLastLine(f) == content[f] # <<>> /\ content[f][Len(content[f])] # "\n"

\* C2: a refresh that follows a successful refresh, with no write to any file
\* in between, appends no event and leaves every recorded offset unchanged
\* (also when a file's last line has no terminating newline).
C2_SecondRefreshIsIdle ==
    [][(last'.op = "refresh" /\ streak' = 2) => (events' = events /\ offsets' = offsets)]_vars

C2_Witness ==
    /\ last.op = "refresh"
    /\ streak = 2
    /\ \E f \in present : HasOpenLastLine(f) /\ offsets[f] = Len(content[f])

\* C3 (as claimed): after a successful refresh the offset recorded for a file
\* is the position just after the last newline-terminated line consumed; the
\* bytes of an unterminated last line are not included.
C3_OffsetAfterLastCompleteLine ==
    (last.op = "refresh" /\ last.ok) =>
        \A f \in DOMAIN last.start :
            offsets[f] = Max(last.start[f], CompleteEnd(content[f]))

\* a file made of whole usage lines, the last of them possibly still being
\* written
OnlyUsageLines(bytes) ==
    \A i \in 1..Len(bytes) : bytes[i] = <<"{", "}", "\n">>[((i - 1) % 3) + 1]

\* C4 (as claimed): a usage line written in pieces, with refreshes in between,
\* is ingested exactly once when it is complete: after a successful refresh a
\* file that was only ever appended to, and holds usage lines only, has given
\* one event per complete line (and at most one more, for a last line not yet
\* terminated).
C4_CompleteLineIngestedOnce ==
    (pc = "live" /\ coldClean /\ last.op = "refresh" /\ last.ok) =>
        \A f \in present :
            (intact[f] /\ OnlyUsageLines(content[f])) =>
                /\ CountOf(f, events) >= CompleteUsageLines(content[f])
                /\ CountOf(f, events) <= UsageLines(content[f])

\* C5: a file found shorter than its recorded offset is read again from byte
\* 0: the events of every line now in it are appended, its new offset is
\* recorded, and the events stored before stay.
C5_TruncatedFileIsReread ==
    [][last'.op = "refresh" =>
        \A f \in last'.rewound :
            /\ last'.start[f] = 0
            /\ offsets'[f] = Len(content[f])
            /\ CountOf(f, events') = CountOf(f, events) + UsageLines(content[f])
            /\ IsPrefix(events, events')]_vars

C5_Witness ==
    /\ last.op = "refresh"
    /\ \E f \in last.rewound : UsageLines(content[f]) > 0 /\ CountOf(f, events) >= 2

\* C6: the event store before a refresh is a prefix of the event store after
\* it, whether the refresh succeeds or fails and whether it handles a
\* truncated file.
C6_StoreIsAppendOnly ==
    [][last'.op = "refresh" => IsPrefix(events, events')]_vars

C6_Witness ==
    /\ last.op = "refresh"
    /\ ~last.ok
    /\ last.rewound # {}
    /\ \E f \in last.rewound : UsageLines(content[f]) > 0

\* C7: from_existing records each loaded file's current length as its offset,
\* and while no file changes after the initial load a refresh appends no event.
C7_ColdStartReadsNothingAgain ==
    [][/\ (last'.op = "from_existing" /\ last'.ok) =>
              \A f \in Range(files) : offsets'[f] = Len(content[f])
       /\ (last'.op = "refresh" /\ ~sinceLoad) => events' = events]_vars

C7_Witness ==
    /\ last.op = "refresh"
    /\ last.ok
    /\ ~sinceLoad
    /\ Cardinality(DOMAIN offsets) = 2
    /\ Len(events) >= 2

----------------------------------------------------------------------------
(* Pricing: model keys are strings, modelled as sequences of characters *)

MaxKeys == 2

ANTHROPIC  == <<"a", "n", "t", "h", "r", "o", "p", "i", "c", "/">>
OPENROUTER == <<"o", "p", "e", "n", "r", "o", "u", "t", "e", "r", "/">>
OPENAI     == <<"o", "p", "e", "n", "a", "i", "/">>

UPPERCASE == <<"A", "B", "C", "D", "E", "F", "G", "H", "I", "J", "K", "L", "M", "N", "O", "P", "Q", "R", "S", "T", "U", "V", "W", "X", "Y", "Z">>
LOWERCASE == <<"a", "b", "c", "d", "e", "f", "g", "h", "i", "j", "k", "l", "m", "n", "o", "p", "q", "r", "s", "t", "u", "v", "w", "x", "y", "z">>

\* char::to_lowercase
lower_char(c) ==
    IF \E i \in 1..Len(UPPERCASE) : UPPERCASE[i] = c
    THEN LOWERCASE[CHOOSE i \in 1..Len(UPPERCASE) : UPPERCASE[i] = c]
    ELSE c

\* str::to_lowercase
to_lowercase(str) == [i \in 1..Len(str) |-> lower_char(str[i])]

\* str::starts_with
starts_with(str, prefix) == IsPrefix(prefix, str)

\* str::strip_prefix(..).unwrap_or(str), as the `if let Some(rest)` uses it
strip_prefix(str, prefix) ==
    IF starts_with(str, prefix) THEN SubSeq(str, Len(prefix) + 1, Len(str)) ELSE str

\* normalize_model_for_pricing
normalize_model_for_pricing(name) ==
    LET m0 == to_lowercase(name)
        m1 == strip_prefix(m0, ANTHROPIC)
        m2 == strip_prefix(m1, OPENROUTER)
        m3 == strip_prefix(m2, OPENAI) IN
    m3

\* Pricing: four rates per million tokens
Prices ==
    { [input_per_million |-> 3, output_per_million |-> 15,
       cache_create_per_million |-> 4, cache_read_per_million |-> 1],
      [input_per_million |-> 15, output_per_million |-> 75,
       cache_create_per_million |-> 19, cache_read_per_million |-> 2] }

CLAUDE_3      == <<"c", "l", "a", "u", "d", "e", "-", "3">>
CLAUDE_3_OPUS == <<"c", "l", "a", "u", "d", "e", "-", "3", "-", "o", "p", "u", "s">>

\* the keys a raw price table may hold
RawKeys ==
    { CLAUDE_3, CLAUDE_3_OPUS,
      ANTHROPIC \o CLAUDE_3,
      <<"A", "n", "t", "h", "r", "o", "p", "i", "c", "/", "C", "l", "a", "u", "d", "e", "-", "3">>,
      OPENAI \o CLAUDE_3,
      ANTHROPIC \o OPENAI \o CLAUDE_3,
      <<"g", "p", "t", "-", "4">> }

\* the model names a record may carry
ModelNames ==
    { CLAUDE_3_OPUS \o <<"-", "2", "0", "2", "4", "0", "2", "2", "9">>,
      CLAUDE_3 \o <<"-", "h", "a", "i", "k", "u">>,
      <<"C", "l", "a", "u", "d", "e", "-", "3", "-", "O", "p", "u", "s">>,
      ANTHROPIC \o CLAUDE_3_OPUS,
      ANTHROPIC \o OPENAI \o CLAUDE_3,
      OPENAI \o ANTHROPIC \o CLAUDE_3,
      <<"O", "p", "e", "n", "R", "o", "u", "t", "e", "r", "/">> \o ANTHROPIC \o CLAUDE_3,
      <<"g", "e", "m", "i", "n", "i">> }

\* HashMap::entry(key).or_insert(value)
OrInsertOverwrites(map, key, value) ==
    [k \in DOMAIN map \cup {key} |-> IF k = key THEN value ELSE map[k]]
or_insert(map, key, value) ==
    IF key \in DOMAIN map THEN map
    ELSE [k \in DOMAIN map \cup {key} |-> IF k = key THEN value ELSE map[k]]

\* build_pricing_index, the loop over the raw table in the order `keys`
RECURSIVE combine(_, _, _)
combine(map, keys, combined) ==
    IF keys = <<>> THEN combined
    ELSE LET key == Head(keys)
             c1  == or_insert(combined, key, map[key])
             c2  == or_insert(c1, normalize_model_for_pricing(key), map[key]) IN
         combine(map, Tail(keys), c2)

\* PricingIndex::from_map: the map's entries, in any order, sorted by key
\* length, longest first (the sort is stable: equal lengths keep the map's order)
FromMapShortestFirst(map) ==
    { [i \in 1..Cardinality(DOMAIN map) |-> <<ks[i], map[ks[i]]>>] :
        ks \in { s \in Permutations_of(DOMAIN map) :
                   \A i, j \in 1..Len(s) : i < j => Len(s[i]) <= Len(s[j]) } }
from_map(map) ==
    { [i \in 1..Cardinality(DOMAIN map) |-> <<ks[i], map[ks[i]]>>] :
        ks \in { s \in Permutations_of(DOMAIN map) :
                   \A i, j \in 1..Len(s) : i < j => Len(s[i]) >= Len(s[j]) } }

\* PricingIndex::find: the first entry whose key the model starts with
find(entries, m) ==
    LET hits == { i \in 1..Len(entries) : starts_with(m, entries[i][1]) } IN
    IF hits = {} THEN <<>> ELSE <<entries[Min(hits)][2]>>

\* main, line 485: the index is built from the loaded table; a HashMap is
\* visited in no particular order
build_pricing_index ==
    /\ ppc = "raw"
    /\ \E keys \in Permutations_of(DOMAIN raw) :
         index' \in from_map(combine(raw, keys, <<>>))
    /\ ppc' = "built"
    /\ UNCHANGED <<raw, model, normalized, pricing, cost_mode, record, event, pathVars,
                   notPricing>>

\* calculate_cost, lines 1312-1316, for a record with model name `name`
calculate_cost_lookup(name) ==
    /\ ppc \in {"built", "found"}
    /\ model' = name
    /\ normalized' = normalize_model_for_pricing(name)
    /\ pricing' = find(index, normalize_model_for_pricing(name))
    /\ ppc' = "found"
    /\ UNCHANGED <<raw, index, cost_mode, record, event, pathVars, notPricing>>

\* calculate_cost: the cost of one record in millionths of a dollar (the code
\* divides each token count by 1,000,000 in floating point; with rates that
\* are whole dollars per million tokens the exact value is a whole number of
\* millionths)
DerivedCostIgnoresCacheRate(entries, model_name, input, output, cache_creation, cache_read) ==
    IF model_name = <<>> THEN 0
    ELSE LET found == find(entries, normalize_model_for_pricing(model_name[1])) IN
         IF found = <<>> THEN 0
         ELSE (input + cache_creation + cache_read) * found[1].input_per_million
              + output * found[1].output_per_million
calculate_cost(entries, model_name, input, output, cache_creation, cache_read) ==
    IF model_name = <<>> THEN 0
    ELSE LET found == find(entries, normalize_model_for_pricing(model_name[1])) IN
         IF found = <<>> THEN 0
         ELSE LET p            == found[1]
                  input_tokens == input + cache_creation + cache_read
                  input_cost   == input_tokens * p.input_per_million
                                  + cache_creation * p.cache_create_per_million
                                  + cache_read * p.cache_read_per_million
                  output_cost  == output * p.output_per_million IN
              input_cost + output_cost

\* The text of a timestamp field: a date (day number), a time of day in
\* minutes and a UTC offset in minutes when it is written date-time "T" time
\* with or without an offset ("date-time"), or some other text ("other").
\* parse_timestamp: parse_from_rfc3339(ts).ok(), then with_timezone(&Utc)
parse_timestamp(ts) ==
    IF ts.form # "date-time" \/ ts.offset = <<>> THEN <<>>
    ELSE <<ts.date * 1440 + ts.minute - ts.offset[1]>>

\* Option::unwrap_or
unwrap_or(o, default) == IF o = <<>> THEN default ELSE o[1]

\* message.as_ref().and_then(|m| m.usage.as_ref()).or(raw.usage.as_ref())
UsageOnlyFromMessage(rec) ==
    IF rec.message # <<>> THEN rec.message[1].usage ELSE <<>>
usage_of(rec) ==
    IF rec.message # <<>> /\ rec.message[1].usage # <<>> THEN rec.message[1].usage
    ELSE rec.usage

\* message.and_then(|m| m.model)
model_of(rec) == IF rec.message = <<>> THEN <<>> ELSE rec.message[1].model

CostModes == {"auto", "prefer-field", "calculate"}

\* the `match COST_MODE` of to_usage_event
CostAlwaysPrefersField(mode, field, derived) == unwrap_or(field, derived)
cost_for(mode, field, derived) ==
    IF mode = "calculate" THEN derived ELSE unwrap_or(field, derived)

\* to_usage_event(raw, project, session_id) under the cost mode and with the
\* pricing index of the run: <<>> (None) or <<UsageEvent>>
NormalizeEvent(mode, entries, rec, project, session_id) ==
    LET ts == parse_timestamp(rec.timestamp)
        u  == usage_of(rec) IN
    IF ts = <<>> THEN <<>>
    ELSE IF u = <<>> THEN <<>>
    ELSE LET input_tokens          == unwrap_or(u[1].input_tokens, 0)
             output_tokens         == unwrap_or(u[1].output_tokens, 0)
             cache_creation_tokens == unwrap_or(u[1].cache_creation_input_tokens, 0)
             cache_read_tokens     == unwrap_or(u[1].cache_read_input_tokens, 0)
             cost == cost_for(mode, rec.cost_usd,
                              calculate_cost(entries, model_of(rec), input_tokens,
                                             output_tokens, cache_creation_tokens,
                                             cache_read_tokens)) IN
         <<[timestamp             |-> ts[1],
            project               |-> project,
            session_id            |-> unwrap_or(rec.session_id, session_id),
            model                 |-> model_of(rec),
            input_tokens          |-> input_tokens,
            output_tokens         |-> output_tokens,
            cache_creation_tokens |-> cache_creation_tokens,
            cache_read_tokens     |-> cache_read_tokens,
            cost_usd              |-> cost]>>

\* the raw records of the model
RawUsage(i, o, cc, cr) ==
    [input_tokens |-> i, output_tokens |-> o,
     cache_creation_input_tokens |-> cc, cache_read_input_tokens |-> cr]

Timestamps ==
    { [form |-> "date-time", date |-> 20058, minute |-> 600, offset |-> <<0>>],
      [form |-> "date-time", date |-> 20058, minute |-> 30, offset |-> <<540>>],
      [form |-> "date-time", date |-> 20058, minute |-> 600, offset |-> <<>>],
      [form |-> "other", date |-> 0, minute |-> 0, offset |-> <<>>] }

RawMessages ==
    {<<>>} \cup
    { <<[usage |-> u, model |-> m]>> :
        u \in { <<>>, <<RawUsage(<<100>>, <<20>>, <<3>>, <<4>>)>>,
                <<RawUsage(<<>>, <<7>>, <<>>, <<5>>)>> },
        m \in { <<>>,
                <<CLAUDE_3_OPUS \o <<"-", "2", "0", "2", "4", "0", "2", "2", "9">>>>,
                <<ANTHROPIC \o CLAUDE_3>>,
                <<<<"g", "e", "m", "i", "n", "i">>>> } }

RawRecords ==
    [timestamp  : Timestamps,
     message    : RawMessages,
     usage      : { <<>>, <<RawUsage(<<9>>, <<>>, <<8>>, <<>>)>> },
     cost_usd   : { <<>>, <<123456>> },
     session_id : { <<>>, <<"own">> }]

\* load_events and read_new_events hand a parsed line to to_usage_event with
\* the project and the session id taken from the file's path; the calls do
\* not depend on one another, and the model follows one of them
normalize(rec) ==
    /\ ppc = "built"
    /\ record' = <<rec>>
    /\ event' = NormalizeEvent(cost_mode, index, rec, "pa", "s1")
    /\ ppc' = "event"
    /\ UNCHANGED <<raw, index, model, normalized, pricing, cost_mode, pathVars, notPricing>>

\* The lines of a log file: a blank line, a line that is not a JSON record
\* (which may hold the text "input_tokens" all the same), or the JSON text of
\* a record.
Blank == [text |-> "blank"]
Malformed(mentions) == [text |-> "malformed", mentions |-> mentions]
Record(rec) == [text |-> "record", rec |-> rec]

\* the usage objects written in a record's line
usage_objects(rec) ==
    (IF rec.message # <<>> /\ rec.message[1].usage # <<>>
     THEN {rec.message[1].usage[1]} ELSE {})
    \cup (IF rec.usage # <<>> THEN {rec.usage[1]} ELSE {})

\* line.contains("input_tokens"): the keys "input_tokens",
\* "cache_creation_input_tokens" and "cache_read_input_tokens" hold the text
mentions_input_tokens(line) ==
    CASE line.text = "blank"     -> FALSE
      [] line.text = "malformed" -> line.mentions
      [] line.text = "record"    ->
            \E u \in usage_objects(line.rec) :
                \/ u.input_tokens # <<>>
                \/ u.cache_creation_input_tokens # <<>>
                \/ u.cache_read_input_tokens # <<>>

\* load_events, the loop over the lines of one file
RECURSIVE load_events_lines(_, _, _, _, _)
load_events_lines(ls, mode, entries, project, session_id) ==
    IF ls = <<>> THEN <<>>
    ELSE LET line == Head(ls)
             rest == load_events_lines(Tail(ls), mode, entries, project, session_id) IN
         IF ~mentions_input_tokens(line) THEN rest
         ELSE IF line.text # "record" THEN rest
         ELSE NormalizeEvent(mode, entries, line.rec, project, session_id) \o rest

\* read_new_events, the loop over the lines of one file from offset 0
RECURSIVE read_new_events_lines(_, _, _, _, _)
read_new_events_lines(ls, mode, entries, project, session_id) ==
    IF ls = <<>> THEN <<>>
    ELSE LET line == Head(ls)
             rest == read_new_events_lines(Tail(ls), mode, entries, project, session_id) IN
         IF line.text = "blank" THEN rest
         ELSE IF line.text # "record" THEN rest
         ELSE NormalizeEvent(mode, entries, line.rec, project, session_id) \o rest

\* the usage objects and the records of the log files of the model
UsageObjects ==
    { RawUsage(<<100>>, <<20>>, <<3>>, <<4>>),
      RawUsage(<<>>, <<7>>, <<>>, <<5>>),
      RawUsage(<<>>, <<7>>, <<>>, <<>>) }

LogRecords ==
    { r \in RawRecords :
        /\ r.timestamp.offset # <<540>>
        /\ r.timestamp.form = "other" \/ r.timestamp.offset # <<>>
        /\ r.usage = <<>>
        /\ r.cost_usd = <<>>
        /\ r.session_id = <<>>
        /\ r.message # <<>> => r.message[1].model = <<>> }
    \cup { [timestamp |-> ts, message |-> <<[usage |-> <<u>>, model |-> <<>>]>>,
            usage |-> <<>>, cost_usd |-> <<>>, session_id |-> <<>>] :
            ts \in { t \in Timestamps : t.offset = <<0>> }, u \in UsageObjects }

LogLines == {Blank, Malformed(TRUE), Malformed(FALSE)} \cup { Record(r) : r \in LogRecords }

MaxLines == 2

LogFiles == UNION { [1..n -> LogLines] : n \in 1..MaxLines }

\* the same file read by load_events (main.rs:500) and by read_new_events
\* from offset 0 (a file the live source finds later)
ingest(file) ==
    /\ ppc = "built"
    /\ log' = file
    /\ loaded' = load_events_lines(file, cost_mode, index, "pa", "s1")
    /\ tailed' = read_new_events_lines(file, cost_mode, index, "pa", "s1")
    /\ ppc' = "ingested"
    /\ UNCHANGED <<raw, index, model, normalized, pricing, cost_mode, record, event, notPricing>>

LiveIdle ==
    /\ present = {}
    /\ content = [f \in Files |-> <<>>]
    /\ pc = "idle"
    /\ files = <<>>
    /\ offsets = <<>>
    /\ events = <<>>
    /\ last = Step("init", TRUE)
    /\ written = 0
    /\ truncs = 0
    /\ streak = 0
    /\ sinceLoad = FALSE
    /\ intact = [f \in Files |-> TRUE]
    /\ coldClean = FALSE
    /\ replaced = [f \in Files |-> <<>>]

InitPricing ==
    /\ LiveIdle
    /\ ReportIdle
    /\ MainIdle
    /\ TuiIdle
    /\ ppc = "raw"
    /\ \E ks \in SUBSET RawKeys :
         /\ Cardinality(ks) <= MaxKeys
         /\ raw \in [ks -> Prices]
    /\ index = <<>>
    /\ model = <<>>
    /\ normalized = <<>>
    /\ pricing = <<>>
    /\ cost_mode \in CostModes
    /\ record = <<>>
    /\ event = <<>>
    /\ log = <<>>
    /\ loaded = <<>>
    /\ tailed = <<>>

NextPricing ==
    \/ build_pricing_index
    \/ \E name \in ModelNames : calculate_cost_lookup(name)
    \/ \E rec \in RawRecords : normalize(rec)
    \/ \E file \in LogFiles : ingest(file)

SpecPricing == InitPricing /\ [][NextPricing]_vars

----------------------------------------------------------------------------
(* Properties of the pricing index *)

IndexKeys == { index[i][1] : i \in 1..Len(index) }

\* the pricing the index stores under key k
Stored(k) == index[CHOOSE i \in 1..Len(index) : index[i][1] = k][2]

Longest(S) == CHOOSE s \in S : \A t \in S : Len(t) <= Len(s)

\* C8: find(q) returns the pricing stored under the longest key of the index
\* that is a prefix of q, and nothing exactly when no key is a prefix of q;
\* with "claude-3" and "claude-3-opus" both present, "claude-3-opus-20240229"
\* gets the "claude-3-opus" entry and "claude-3-haiku" the "claude-3" entry.
C8_LongestPrefixWins ==
    ppc = "found" =>
        LET pre == { k \in IndexKeys : starts_with(normalized, k) } IN
        /\ pre = {} => pricing = <<>>
        /\ pre # {} => pricing = <<Stored(Longest(pre))>>
        /\ ({CLAUDE_3, CLAUDE_3_OPUS} \subseteq IndexKeys
               /\ normalized = CLAUDE_3 \o <<"-", "h", "a", "i", "k", "u">>)
              => pricing = <<Stored(CLAUDE_3)>>
        /\ ({CLAUDE_3, CLAUDE_3_OPUS} \subseteq IndexKeys
               /\ normalized = CLAUDE_3_OPUS \o <<"-", "2", "0", "2", "4", "0", "2", "2", "9">>)
              => pricing = <<Stored(CLAUDE_3_OPUS)>>

C8_Witness ==
    /\ ppc = "found"
    /\ {CLAUDE_3, CLAUDE_3_OPUS} \subseteq IndexKeys
    /\ Stored(CLAUDE_3) # Stored(CLAUDE_3_OPUS)
    /\ normalized = CLAUDE_3_OPUS \o <<"-", "2", "0", "2", "4", "0", "2", "2", "9">>
    /\ pricing = <<Stored(CLAUDE_3_OPUS)>>

\* C9 (as claimed): every key of the raw table is stored in the index with
\* its own pricing, also when it equals the normalized form of another raw
\* key, whatever the order the raw entries are visited in.
C9_OriginalKeyWins ==
    ppc \in {"built", "found"} => \A k \in DOMAIN raw : Stored(k) = raw[k]

VendorPrefixes == {ANTHROPIC, OPENROUTER, OPENAI}

\* one leading vendor prefix removed (no vendor prefix is a prefix of another)
StripOneVendorPrefix(m) ==
    IF \E p \in VendorPrefixes : starts_with(m, p)
    THEN strip_prefix(m, CHOOSE p \in VendorPrefixes : starts_with(m, p))
    ELSE m

\* C10 (as claimed): the normalized key is the lower-cased key with one
\* leading vendor prefix removed, so the second of two prefixes is kept.
C10_StripsOnePrefix ==
    ppc = "found" => normalized = StripOneVendorPrefix(to_lowercase(model))

----------------------------------------------------------------------------
(* Properties of record normalization and of the derived cost *)

\* the first entry of the index is the longest key; the pricing of the
\* longest key of the index that is a prefix of the normalized model name,
\* <<>> when there is none
Resolved(name) ==
    LET n   == normalize_model_for_pricing(name)
        pre == { k \in IndexKeys : starts_with(n, k) } IN
    IF pre = {} THEN <<>> ELSE <<Stored(Longest(pre))>>

\* the claimed cost, in millionths of a dollar, of the event ev
DerivedCost(ev) ==
    IF ev.model = <<>> THEN 0
    ELSE IF Resolved(ev.model[1]) = <<>> THEN 0
    ELSE LET p == Resolved(ev.model[1])[1] IN
         (ev.input_tokens + ev.cache_creation_tokens + ev.cache_read_tokens)
              * p.input_per_million
         + ev.cache_creation_tokens * p.cache_create_per_million
         + ev.cache_read_tokens * p.cache_read_per_million
         + ev.output_tokens * p.output_per_million

\* C11: the cost of a normalized event follows the cost mode: in calculate
\* mode it is the cost derived from the tokens and the resolved pricing,
\* whatever cost field the record carries; in prefer-field and in auto mode it
\* is the record's cost field when it has one and the derived cost otherwise;
\* auto and prefer-field give the same event for every record.
C11_CostFollowsMode ==
    (ppc = "event" /\ event # <<>>) =>
        /\ cost_mode = "calculate" => event[1].cost_usd = DerivedCost(event[1])
        /\ cost_mode \in {"auto", "prefer-field"} =>
              event[1].cost_usd = IF record[1].cost_usd # <<>>
                                  THEN record[1].cost_usd[1]
                                  ELSE DerivedCost(event[1])
        /\ NormalizeEvent("auto", index, record[1], "pa", "s1")
              = NormalizeEvent("prefer-field", index, record[1], "pa", "s1")

\* calculate mode, a record with a cost field and a priced model: the event's
\* cost is the derived one, not the field
C11_Witness ==
    /\ ppc = "event"
    /\ event # <<>>
    /\ cost_mode = "calculate"
    /\ record[1].cost_usd # <<>>
    /\ event[1].cost_usd > 0
    /\ event[1].cost_usd # record[1].cost_usd[1]

\* C12: the derived cost of an event whose model resolves to pricing
\* (ri, ro, rcc, rcr per million tokens) is ((input + cache_creation +
\* cache_read) * ri + cache_creation * rcc + cache_read * rcr + output * ro)
\* / 1,000,000, and zero when the record has no model or no key of the index
\* is a prefix of the normalized model; neither case is an error (an event is
\* returned).
C12_DerivedCostFormula ==
    (ppc = "event" /\ parse_timestamp(record[1].timestamp) # <<>>
                   /\ usage_of(record[1]) # <<>>
                   /\ (cost_mode = "calculate" \/ record[1].cost_usd = <<>>)) =>
        /\ event # <<>>
        /\ event[1].cost_usd = DerivedCost(event[1])
        /\ (event[1].model = <<>> \/ Resolved(event[1].model[1]) = <<>>)
              => event[1].cost_usd = 0

\* a derived cost with cache-creation and cache-read tokens in it
C12_Witness ==
    /\ ppc = "event"
    /\ event # <<>>
    /\ record[1].cost_usd = <<>>
    /\ event[1].cache_creation_tokens > 0
    /\ event[1].cache_read_tokens > 0
    /\ event[1].output_tokens > 0
    /\ event[1].cost_usd > 0

\* the timestamp text is a date-time with an offset
ValidTimestamp(ts) == ts.form = "date-time" /\ ts.offset # <<>>

\* the usage object of the record: the message's when it has one, else the
\* record's own
UsageObject(rec) ==
    IF rec.message # <<>> /\ rec.message[1].usage # <<>>
    THEN rec.message[1].usage[1] ELSE rec.usage[1]

HasUsageObject(rec) ==
    (rec.message # <<>> /\ rec.message[1].usage # <<>>) \/ rec.usage # <<>>

OrZero(o) == IF o = <<>> THEN 0 ELSE o[1]

\* C13: normalizing a raw record returns nothing exactly when its timestamp
\* is not a date-time with offset or it has neither a message-level nor a
\* top-level usage object; otherwise it returns an event whose four token
\* counters are the usage object's fields, absent fields taken as zero, and
\* whose session id is the record's own when present and the caller's
\* otherwise.
C13_AbsentCases ==
    ppc = "event" =>
        LET rec == record[1] IN
        /\ event = <<>> <=> (~ValidTimestamp(rec.timestamp) \/ ~HasUsageObject(rec))
        /\ event # <<>> =>
              /\ event[1].input_tokens = OrZero(UsageObject(rec).input_tokens)
              /\ event[1].output_tokens = OrZero(UsageObject(rec).output_tokens)
              /\ event[1].cache_creation_tokens
                    = OrZero(UsageObject(rec).cache_creation_input_tokens)
              /\ event[1].cache_read_tokens
                    = OrZero(UsageObject(rec).cache_read_input_tokens)
              /\ event[1].session_id
                    = (IF rec.session_id # <<>> THEN rec.session_id[1] ELSE "s1")
              /\ event[1].timestamp = rec.timestamp.date * 1440 + rec.timestamp.minute
                                      - rec.timestamp.offset[1]

\* a record with a message that has no usage object, a top-level usage
\* object with absent fields, and no session id of its own
C13_Witness ==
    /\ ppc = "event"
    /\ event # <<>>
    /\ record[1].message # <<>>
    /\ record[1].message[1].usage = <<>>
    /\ record[1].session_id = <<>>
    /\ record[1].timestamp.offset = <<540>>
    /\ event[1].input_tokens = 9
    /\ event[1].output_tokens = 0
    /\ event[1].session_id = "s1"

----------------------------------------------------------------------------
(* Reports.  A timestamp is a UTC instant in minutes since 1970-01-01T00:00Z, *)
(* a date is a day number since 1970-01-01, a time zone is a record of its    *)
(* UTC offsets in minutes before and after the one change of offset it has   *)
(* in the period covered (none when the two are equal).                       *)
(* Option<T> is <<>> (None) or <<x>> (Some(x)).  cost_usd is in millionths.   *)

MaxEvents == 3

DEFAULT_BLOCK_HOURS == 5
DEFAULT_RECENT_DAYS == 3

None == <<>>
Some(x) == <<x>>

\* a < b for two tuples of integers of one length (the order of the strings
\* and tuples they stand for)
LexLess(a, b) ==
    \E i \in 1..Len(a) : a[i] < b[i] /\ \A j \in 1..(i - 1) : a[j] = b[j]

\* the elements of S in ascending order of their rank, rank a function on S
\* (BTreeMap::into_iter)
in_order(S, rank) ==
    [p \in 1..Cardinality(S) |->
        CHOOSE x \in S : Cardinality({ y \in S : LexLess(rank[y], rank[x]) }) = p - 1]

\* slice::sort_by, a stable sort, of seq by rank ascending or (reversed)
\* descending; rank[i] is the rank of seq[i]
sort_by(seq, rank, reversed) ==
    LET Before(j, i) ==
            \/ IF reversed THEN LexLess(rank[i], rank[j])
                           ELSE LexLess(rank[j], rank[i])
            \/ rank[j] = rank[i] /\ j < i
        Pos(i) == 1 + Cardinality({ j \in 1..Len(seq) : Before(j, i) }) IN
    [p \in 1..Len(seq) |-> seq[CHOOSE i \in 1..Len(seq) : Pos(i) = p]]

\* byte order of the project, session and model names used
NameRank(name) ==
    CASE name = "haiku" -> 1 [] name = "opus" -> 2 [] name = "pa" -> 3 [] name = "pb" -> 4
      [] name = "s1" -> 5 [] name = "s2" -> 6 [] name = "s3" -> 7 [] name = "sonnet" -> 8

\* Option<String>: None sorts before Some
OptRank(o) == IF o = None THEN 0 ELSE NameRank(o[1])

\* NaiveDate -> <<year, month, day>> (the proleptic Gregorian calendar)
civil(days) ==
    LET z   == days + 719468
        era == z \div 146097
        doe == z - era * 146097
        yoe == (doe - doe \div 1460 + doe \div 36524 - doe \div 146096) \div 365
        doy == doe - (365 * yoe + yoe \div 4 - yoe \div 100)
        mp  == (5 * doy + 2) \div 153
        d   == doy - (153 * mp + 2) \div 5 + 1
        m   == IF mp < 10 THEN mp + 3 ELSE mp - 9
        y   == yoe + era * 400 + (IF m <= 2 THEN 1 ELSE 0) IN
    <<y, m, d>>

\* the UTC offset of the zone at an instant
utc_offset(tz, instant) == IF instant < tz.change THEN tz.before ELSE tz.after

\* ev.timestamp.with_timezone(tz): local minutes, then date_naive() and hour()
with_timezone(timestamp, tz) == timestamp + utc_offset(tz, timestamp)
date_naive(local) == local \div 1440
hour(local) == (local % 1440) \div 60

\* tz.from_local_datetime(local).single(): the instant whose local time is
\* `local` when there is exactly one, None when the local time does not
\* exist or is ambiguous
from_local_datetime_single(tz, local) ==
    LET hits == { t \in {local - tz.before, local - tz.after} :
                    t + utc_offset(tz, t) = local } IN
    IF Cardinality(hits) = 1 THEN Some(CHOOSE t \in hits : TRUE) ELSE None

\* DateTime<Tz>::with_hour and with_minute: the local time with the field
\* replaced, resolved in the zone again
with_hour(tz, instant, h) ==
    LET local == with_timezone(instant, tz) IN
    from_local_datetime_single(tz, date_naive(local) * 1440 + h * 60 + (local % 60))

with_minute(tz, instant, m) ==
    LET local == with_timezone(instant, tz) IN
    from_local_datetime_single(tz, (local \div 60) * 60 + m)

\* DateTime<Tz>::to_rfc3339: the local date and time and the offset
to_rfc3339(tz, instant) ==
    [local |-> with_timezone(instant, tz), offset |-> utc_offset(tz, instant)]

\* the order of two such texts of one length: by local time, then by the
\* offset text ("+hh:mm" before "-hh:mm")
rfc3339_rank(text) ==
    <<text.local, IF text.offset >= 0 THEN text.offset ELSE 100000 - text.offset>>

\* date.weekday().num_days_from_sunday(); 1970-01-01 was a Thursday
num_days_from_sunday(date) == (date + 4) % 7

\* week_start_for_date
WeekStartIgnoresStart(date, start) == date - num_days_from_sunday(date)
week_start_for_date(date, start) ==
    LET weekday   == num_days_from_sunday(date)
        start_day == IF start = "sunday" THEN 0 ELSE 1
        diff      == (7 + weekday - start_day) % 7 IN
    date - diff

\* in_range
InRangeUntilExclusive(date, since, until) ==
    IF since # None /\ date < since[1] THEN FALSE
    ELSE IF until # None /\ date >= until[1] THEN FALSE
    ELSE TRUE
in_range(date, since, until) ==
    IF since # None /\ date < since[1] THEN FALSE
    ELSE IF until # None /\ date > until[1] THEN FALSE
    ELSE TRUE

\* the project test at the head of every report loop
project_matches(ev, range) ==
    range.project = None \/ ev.project = range.project[1]

Counters == {"input_tokens", "output_tokens", "cache_creation_tokens", "cache_read_tokens"}

\* ModelAccumulator::default, add and finish
ModelAccumulator_default ==
    [input_tokens |-> 0, output_tokens |-> 0, cache_creation_tokens |-> 0,
     cache_read_tokens |-> 0, cost_usd |-> 0]

ModelAccumulator_add(acc, ev) ==
    [input_tokens          |-> acc.input_tokens + ev.input_tokens,
     output_tokens         |-> acc.output_tokens + ev.output_tokens,
     cache_creation_tokens |-> acc.cache_creation_tokens + ev.cache_creation_tokens,
     cache_read_tokens     |-> acc.cache_read_tokens + ev.cache_read_tokens,
     cost_usd              |-> acc.cost_usd + ev.cost_usd]

ModelAccumulator_finish(acc, model_name) ==
    [model                 |-> model_name,
     input_tokens          |-> acc.input_tokens,
     output_tokens         |-> acc.output_tokens,
     cache_creation_tokens |-> acc.cache_creation_tokens,
     cache_read_tokens     |-> acc.cache_read_tokens,
     total_tokens          |-> acc.input_tokens + acc.output_tokens
                               + acc.cache_creation_tokens + acc.cache_read_tokens,
     cost_usd              |-> acc.cost_usd]

\* per_model.entry(model).or_insert_with(default).add(ev)
per_model_add(per_model, ev) ==
    IF ev.model = None THEN per_model
    ELSE LET name == ev.model[1]
             acc  == IF name \in DOMAIN per_model THEN per_model[name]
                     ELSE ModelAccumulator_default IN
         [n \in DOMAIN per_model \cup {name} |->
             IF n = name THEN ModelAccumulator_add(acc, ev) ELSE per_model[n]]

\* per_model.into_iter().map(finish).collect()
per_model_finish(per_model) ==
    LET names == in_order(DOMAIN per_model, [n \in DOMAIN per_model |-> <<NameRank(n)>>]) IN
    [i \in 1..Len(names) |-> ModelAccumulator_finish(per_model[names[i]], names[i])]

\* RowAccumulator::new, add_event and finish
RowAccumulator_new(key) ==
    [key |-> key, input_tokens |-> 0, output_tokens |-> 0, cache_creation_tokens |-> 0,
     cache_read_tokens |-> 0, cost_usd |-> 0, models |-> {}, projects |-> {},
     per_model |-> <<>>]

AddEventDropsCacheRead(acc, ev) ==
    [acc EXCEPT !.input_tokens = @ + ev.input_tokens,
                !.output_tokens = @ + ev.output_tokens,
                !.cache_creation_tokens = @ + ev.cache_creation_tokens,
                !.cost_usd = @ + ev.cost_usd,
                !.projects = @ \cup {ev.project}]
add_event(acc, ev) ==
    [key                   |-> acc.key,
     input_tokens          |-> acc.input_tokens + ev.input_tokens,
     output_tokens         |-> acc.output_tokens + ev.output_tokens,
     cache_creation_tokens |-> acc.cache_creation_tokens + ev.cache_creation_tokens,
     cache_read_tokens     |-> acc.cache_read_tokens + ev.cache_read_tokens,
     cost_usd              |-> acc.cost_usd + ev.cost_usd,
     models                |-> IF ev.model = None THEN acc.models
                               ELSE acc.models \cup {ev.model[1]},
     projects              |-> acc.projects \cup {ev.project},
     per_model             |-> per_model_add(acc.per_model, ev)]

finish(acc) ==
    [key                   |-> acc.key,
     input_tokens          |-> acc.input_tokens,
     output_tokens         |-> acc.output_tokens,
     cache_creation_tokens |-> acc.cache_creation_tokens,
     cache_read_tokens     |-> acc.cache_read_tokens,
     total_tokens          |-> acc.input_tokens + acc.output_tokens
                               + acc.cache_creation_tokens + acc.cache_read_tokens,
     cost_usd              |-> acc.cost_usd,
     models                |-> acc.models,
     projects              |-> acc.projects,
     model_breakdowns      |-> per_model_finish(acc.per_model)]

\* SessionAccumulator::new, add_event and finish; MIN_UTC is below every
\* timestamp
SessionAccumulator_new(session_id, project) ==
    [session_id |-> session_id, project |-> project, last_activity |-> -1,
     input_tokens |-> 0, output_tokens |-> 0, cache_creation_tokens |-> 0,
     cache_read_tokens |-> 0, cost_usd |-> 0, models |-> {}, per_model |-> <<>>]

SessionAddDropsOutput(acc, ev) ==
    [acc EXCEPT !.project = ev.project,
                !.last_activity = IF ev.timestamp > @ THEN ev.timestamp ELSE @,
                !.input_tokens = @ + ev.input_tokens,
                !.cache_creation_tokens = @ + ev.cache_creation_tokens,
                !.cache_read_tokens = @ + ev.cache_read_tokens,
                !.cost_usd = @ + ev.cost_usd]
session_add_event(acc, ev) ==
    [session_id            |-> acc.session_id,
     project               |-> ev.project,
     last_activity         |-> IF ev.timestamp > acc.last_activity
                               THEN ev.timestamp ELSE acc.last_activity,
     input_tokens          |-> acc.input_tokens + ev.input_tokens,
     output_tokens         |-> acc.output_tokens + ev.output_tokens,
     cache_creation_tokens |-> acc.cache_creation_tokens + ev.cache_creation_tokens,
     cache_read_tokens     |-> acc.cache_read_tokens + ev.cache_read_tokens,
     cost_usd              |-> acc.cost_usd + ev.cost_usd,
     models                |-> IF ev.model = None THEN acc.models
                               ELSE acc.models \cup {ev.model[1]},
     per_model             |-> per_model_add(acc.per_model, ev)]

session_finish(acc) ==
    [session_id            |-> acc.session_id,
     project               |-> acc.project,
     last_activity         |-> acc.last_activity,
     input_tokens          |-> acc.input_tokens,
     output_tokens         |-> acc.output_tokens,
     cache_creation_tokens |-> acc.cache_creation_tokens,
     cache_read_tokens     |-> acc.cache_read_tokens,
     total_tokens          |-> acc.input_tokens + acc.output_tokens
                               + acc.cache_creation_tokens + acc.cache_read_tokens,
     cost_usd              |-> acc.cost_usd,
     models                |-> acc.models,
     model_breakdowns      |-> per_model_finish(acc.per_model)]

\* calculate_totals, calculate_session_totals and calculate_block_totals (the
\* three have one body)
RECURSIVE calculate_totals_from(_, _)
calculate_totals_from(rows, totals) ==
    IF rows = <<>> THEN totals
    ELSE LET row == Head(rows) IN
         calculate_totals_from(Tail(rows),
            [input_tokens          |-> totals.input_tokens + row.input_tokens,
             output_tokens         |-> totals.output_tokens + row.output_tokens,
             cache_creation_tokens |-> totals.cache_creation_tokens + row.cache_creation_tokens,
             cache_read_tokens     |-> totals.cache_read_tokens + row.cache_read_tokens,
             total_tokens          |-> totals.total_tokens + row.total_tokens,
             cost_usd              |-> totals.cost_usd + row.cost_usd])

calculate_totals(rows) ==
    calculate_totals_from(rows, [input_tokens |-> 0, output_tokens |-> 0,
                                 cache_creation_tokens |-> 0, cache_read_tokens |-> 0,
                                 total_tokens |-> 0, cost_usd |-> 0])

\* ModelAccumulator::add_from_breakdown has the body of add
\* aggregate_models_from_rows, _from_session_rows and _from_blocks (one body)
RECURSIVE fold_breakdowns(_, _)
fold_breakdowns(mbs, map) ==
    IF mbs = <<>> THEN map
    ELSE LET mb  == Head(mbs)
             acc == IF mb.model \in DOMAIN map THEN map[mb.model]
                    ELSE ModelAccumulator_default IN
         fold_breakdowns(Tail(mbs),
            [n \in DOMAIN map \cup {mb.model} |->
                IF n = mb.model THEN ModelAccumulator_add(acc, mb) ELSE map[n]])

RECURSIVE fold_rows(_, _)
fold_rows(rows, map) ==
    IF rows = <<>> THEN map
    ELSE fold_rows(Tail(rows), fold_breakdowns(Head(rows).model_breakdowns, map))

aggregate_models_from_rows(rows) == per_model_finish(fold_rows(rows, <<>>))

\* sort_rows: by the key string; a date key "YYYY-MM-DD" or "YYYY-MM", with
\* " (project)" after it when rows are split per project
key_rank(key) == key.date \o <<OptRank(key.project)>>

SortRowsAscending(rows, order) ==
    sort_by(rows, [i \in DOMAIN rows |-> key_rank(rows[i].key)], FALSE)
sort_rows(rows, order) ==
    sort_by(rows, [i \in DOMAIN rows |-> key_rank(rows[i].key)], order = "desc")

\* the loop of a report builder: the events it keeps (keep[i]) are added, in
\* order, to the accumulator under their key (keys[i]), a SessionAccumulator
\* in the sessions report and a RowAccumulator in the others
\* (map.entry(key).or_insert_with(new).add_event(ev))
accumulate(evs, keep, keys, sessions) ==
    LET map[i \in 0..Len(evs)] ==
            IF i = 0 THEN <<>>
            ELSE LET ev == evs[i]
                     before == map[i - 1] IN
                 IF ~keep[i] THEN before
                 ELSE LET key == keys[i]
                          entry == IF key \in DOMAIN before THEN before[key]
                                   ELSE IF sessions
                                        THEN SessionAccumulator_new(key, ev.project)
                                        ELSE RowAccumulator_new(key) IN
                      [k \in DOMAIN before \cup {key} |->
                          IF k = key
                          THEN IF sessions THEN session_add_event(entry, ev)
                                           ELSE add_event(entry, ev)
                          ELSE before[k]] IN
    map[Len(evs)]

local_date(ev, tz) == date_naive(with_timezone(ev.timestamp, tz))

\* the two tests at the head of the daily, weekly, monthly and sessions loops
keep_in_range(ev, tz, range) ==
    /\ project_matches(ev, range)
    /\ in_range(local_date(ev, tz), range.since, range.until)

instance_of(ev, instances) == IF instances THEN Some(ev.project) ELSE None

\* the rows of a daily, weekly or monthly report; dates[i] is the date part
\* of the key of evs[i], a tuple, and the key is [date, project]
date_rows(evs, tz, range, order, instances, dates) ==
    LET map  == accumulate(evs,
                    [i \in DOMAIN evs |-> keep_in_range(evs[i], tz, range)],
                    [i \in DOMAIN evs |-> [date    |-> dates[i],
                                           project |-> instance_of(evs[i], instances)]],
                    FALSE)
        keys == in_order(DOMAIN map, [k \in DOMAIN map |-> key_rank(k)]) IN
    sort_rows([i \in 1..Len(keys) |-> finish(map[keys[i]])], order)

finish_report(kind, rows, breakdown) ==
    [kind             |-> kind,
     rows             |-> rows,
     totals           |-> calculate_totals(rows),
     model_breakdowns |-> IF breakdown THEN aggregate_models_from_rows(rows) ELSE <<>>]

build_daily_report(evs, tz, range, order, instances, breakdown) ==
    finish_report("daily",
        date_rows(evs, tz, range, order, instances,
                  [i \in DOMAIN evs |-> civil(local_date(evs[i], tz))]),
        breakdown)

build_weekly_report(evs, tz, range, order, instances, start_of_week, breakdown) ==
    finish_report("weekly",
        date_rows(evs, tz, range, order, instances,
                  [i \in DOMAIN evs |->
                      civil(week_start_for_date(local_date(evs[i], tz), start_of_week))]),
        breakdown)

build_monthly_report(evs, tz, range, order, instances, breakdown) ==
    finish_report("monthly",
        date_rows(evs, tz, range, order, instances,
                  [i \in DOMAIN evs |-> SubSeq(civil(local_date(evs[i], tz)), 1, 2)]),
        breakdown)

build_session_report(evs, tz, range, breakdown) ==
    LET map  == accumulate(evs,
                    [i \in DOMAIN evs |-> keep_in_range(evs[i], tz, range)],
                    [i \in DOMAIN evs |-> evs[i].session_id],
                    TRUE)
        keys == in_order(DOMAIN map, [k \in DOMAIN map |-> <<NameRank(k)>>])
        rows == [i \in 1..Len(keys) |-> session_finish(map[keys[i]])] IN
    finish_report("sessions",
        sort_by(rows, [i \in DOMAIN rows |-> <<rows[i].last_activity>>], TRUE), breakdown)

\* events.iter().map(local date).max(), then minus recent_days
latest_date(evs, tz) ==
    IF evs = <<>> THEN None
    ELSE Some(CHOOSE d \in { local_date(evs[i], tz) : i \in DOMAIN evs } :
                 \A i \in DOMAIN evs : local_date(evs[i], tz) <= d)

cutoff(evs, tz, recent_days) ==
    LET latest == latest_date(evs, tz) IN
    IF latest = None THEN None ELSE Some(latest[1] - recent_days)

\* the three tests at the head of the blocks loop
keep_in_block_window(ev, evs, tz, range, recent_days) ==
    LET cut == cutoff(evs, tz, recent_days) IN
    /\ project_matches(ev, range)
    /\ ~(cut # None /\ local_date(ev, tz) < cut[1])
    /\ in_range(local_date(ev, tz), range.since, range.until)

\* the instant at which the event's block starts, None when with_hour or
\* with_minute gives None (the code then panics in expect)
block_start(ev, tz, session_length_hours) ==
    LET local_dt         == with_timezone(ev.timestamp, tz)
        block_hours      == IF session_length_hours < 1 THEN 1 ELSE session_length_hours
        block_start_hour == (hour(local_dt) \div block_hours) * block_hours
        at_hour          == with_hour(tz, ev.timestamp, block_start_hour) IN
    IF at_hour = None THEN None ELSE with_minute(tz, at_hour[1], 0)

\* a block row; percent_of_limit, a ratio in floating point, is left out
block_finish(acc, tz, session_length_hours) ==
    LET row   == finish(acc)
        hours == IF session_length_hours < 1 THEN 1 ELSE session_length_hours IN
    [block_start           |-> to_rfc3339(tz, acc.key),
     block_end             |-> to_rfc3339(tz, acc.key + hours * 60),
     input_tokens          |-> row.input_tokens,
     output_tokens         |-> row.output_tokens,
     cache_creation_tokens |-> row.cache_creation_tokens,
     cache_read_tokens     |-> row.cache_read_tokens,
     total_tokens          |-> row.total_tokens,
     cost_usd              |-> row.cost_usd,
     models                |-> row.models,
     projects              |-> row.projects,
     model_breakdowns      |-> row.model_breakdowns]

\* the expect("valid datetime") of the blocks loop fails on a kept event
blocks_panic(evs, tz, range, recent_days, session_length_hours) ==
    \E i \in DOMAIN evs :
        /\ keep_in_block_window(evs[i], evs, tz, range, recent_days)
        /\ block_start(evs[i], tz, session_length_hours) = None

build_blocks_report(evs, tz, range, recent_days, session_length_hours, breakdown) ==
    LET map  == accumulate(evs,
                    [i \in DOMAIN evs |->
                        keep_in_block_window(evs[i], evs, tz, range, recent_days)],
                    [i \in DOMAIN evs |->
                        unwrap_or(block_start(evs[i], tz, session_length_hours), 0)],
                    FALSE)
        keys == in_order(DOMAIN map, [k \in DOMAIN map |-> <<k>>])
        rows == [i \in 1..Len(keys) |->
                    block_finish(map[keys[i]], tz, session_length_hours)] IN
    finish_report("blocks",
        sort_by(rows, [i \in DOMAIN rows |-> rfc3339_rank(rows[i].block_start)], FALSE),
        breakdown)

\* The events the log files of the model hold.  2024-12-01 is day 20058.
UsageEvent(timestamp, project, session_id, m, i, o, cc, cr, cost) ==
    [timestamp |-> timestamp, project |-> project, session_id |-> session_id,
     model |-> m, input_tokens |-> i, output_tokens |-> o,
     cache_creation_tokens |-> cc, cache_read_tokens |-> cr, cost_usd |-> cost]

EventPool ==
    { UsageEvent(20057 * 1440 + 23 * 60 + 30, "pa", "s1", Some("opus"), 1, 10, 100, 1000, 7),
      UsageEvent(20058 * 1440 + 10 * 60, "pb", "s2", Some("sonnet"), 2, 20, 200, 2000, 11),
      UsageEvent(20059 * 1440 + 8 * 60, "pa", "s1", None, 4, 40, 0, 4000, 0),
      UsageEvent(20063 * 1440 + 2 * 60, "pb", "s1", Some("opus"), 8, 0, 800, 8000, 13),
      UsageEvent(20030 * 1440 + 6 * 60 + 30, "pa", "s2", Some("sonnet"), 16, 160, 1600, 0, 17),
      UsageEvent(20058 * 1440 + 30, "pb", "s3", Some("haiku"), 32, 320, 0, 0, 19) }

\* UTC, Asia/Tokyo, America/Bogota, and America/New_York, which went from
\* UTC-4 to UTC-5 on 2024-11-03 (day 20030) at 06:00 UTC
Timezones ==
    { [name |-> "UTC", before |-> 0, after |-> 0, change |-> 0],
      [name |-> "Asia/Tokyo", before |-> 540, after |-> 540, change |-> 0],
      [name |-> "America/Bogota", before |-> -300, after |-> -300, change |-> 0],
      [name |-> "America/New_York", before |-> -240, after |-> -300,
       change |-> 20030 * 1440 + 6 * 60] }

Ranges ==
    [project : {None, Some("pa")},
     since   : {None, Some(20058)},
     until   : {None, Some(20059)}]

\* resolve_order: the command line, then the command's defaults, then the
\* global defaults, then Desc
resolve_order(cli, cmd, defaults) ==
    IF cli # None THEN cli[1]
    ELSE IF cmd # None THEN cmd[1]
    ELSE IF defaults # None THEN defaults[1]
    ELSE "desc"

\* the orders a command line with or without --order resolves to
Orders == { resolve_order(cli, None, None) : cli \in {None, Some("asc"), Some("desc")} }
WeekStarts == {"sunday", "monday"}

Options(tz, range, order, instances, start_of_week, recent_days, hours, breakdown) ==
    [tz |-> tz, range |-> range, order |-> order, instances |-> instances,
     start_of_week |-> start_of_week, recent_days |-> recent_days,
     session_length_hours |-> hours, breakdown |-> breakdown]

\* load_events pushes one more event
events_push(ev) ==
    /\ rpc = "loading"
    /\ Len(usage) < MaxEvents
    /\ usage' = Append(usage, ev)
    /\ UNCHANGED <<rpc, opts, report>>
    /\ UNCHANGED notReport

\* main returns before any report when no event was loaded
Reported(o, r) ==
    /\ rpc = "loading"
    /\ usage # <<>>
    /\ rpc' = "reported"
    /\ opts' = o
    /\ report' = r
    /\ UNCHANGED usage
    /\ UNCHANGED notReport

Daily ==
    \E tz \in Timezones, range \in Ranges, order \in Orders, instances, breakdown \in BOOLEAN :
        Reported(Options(tz, range, order, instances, "monday", DEFAULT_RECENT_DAYS,
                         DEFAULT_BLOCK_HOURS, breakdown),
                 build_daily_report(usage, tz, range, order, instances, breakdown))

Weekly ==
    \E tz \in Timezones, range \in Ranges, order \in Orders, instances, breakdown \in BOOLEAN,
       start_of_week \in WeekStarts :
        Reported(Options(tz, range, order, instances, start_of_week, DEFAULT_RECENT_DAYS,
                         DEFAULT_BLOCK_HOURS, breakdown),
                 build_weekly_report(usage, tz, range, order, instances, start_of_week,
                                     breakdown))

Monthly ==
    \E tz \in Timezones, range \in Ranges, order \in Orders, instances, breakdown \in BOOLEAN :
        Reported(Options(tz, range, order, instances, "monday", DEFAULT_RECENT_DAYS,
                         DEFAULT_BLOCK_HOURS, breakdown),
                 build_monthly_report(usage, tz, range, order, instances, breakdown))

Sessions ==
    \E tz \in Timezones, range \in Ranges, breakdown \in BOOLEAN :
        Reported(Options(tz, range, "desc", FALSE, "monday", DEFAULT_RECENT_DAYS,
                         DEFAULT_BLOCK_HOURS, breakdown),
                 build_session_report(usage, tz, range, breakdown))

Blocks ==
    /\ rpc = "loading"
    /\ usage # <<>>
    /\ \E tz \in Timezones, range \in Ranges, breakdown \in BOOLEAN,
          recent_days \in {0, 1, DEFAULT_RECENT_DAYS}, hours \in {0, 2, DEFAULT_BLOCK_HOURS} :
        IF blocks_panic(usage, tz, range, recent_days, hours)
        THEN /\ rpc' = "panicked"
             /\ opts' = Options(tz, range, "desc", FALSE, "monday", recent_days, hours,
                                breakdown)
             /\ UNCHANGED <<usage, report>>
             /\ UNCHANGED notReport
        ELSE Reported(Options(tz, range, "desc", FALSE, "monday", recent_days, hours,
                              breakdown),
                      build_blocks_report(usage, tz, range, recent_days, hours, breakdown))

InitReport ==
    /\ LiveIdle
    /\ PricingIdle
    /\ MainIdle
    /\ TuiIdle
    /\ rpc = "loading"
    /\ usage = <<>>
    /\ opts = <<>>
    /\ report = <<>>

NextReport ==
    \/ \E ev \in EventPool : events_push(ev)
    \/ Daily
    \/ Weekly
    \/ Monthly
    \/ Sessions
    \/ Blocks

SpecReport == InitReport /\ [][NextReport]_vars

----------------------------------------------------------------------------
(* Claims about the reports.                                                  *)

RECURSIVE SumOver(_, _)
SumOver(S, f) ==
    IF S = {} THEN 0
    ELSE LET x == CHOOSE y \in S : TRUE IN f[x] + SumOver(S \ {x}, f)

\* the positions in the event list of the events the report of the given
\* kind keeps: the project is the one asked for, the local date lies within
\* since..until, and for blocks it is no more than recent_days before the
\* latest local date of all events
PassesRange(ev) ==
    /\ opts.range.project # None => ev.project = opts.range.project[1]
    /\ opts.range.since # None => local_date(ev, opts.tz) >= opts.range.since[1]
    /\ opts.range.until # None => local_date(ev, opts.tz) <= opts.range.until[1]

InRecentDays(ev) ==
    \A i \in DOMAIN usage :
        local_date(ev, opts.tz) >= local_date(usage[i], opts.tz) - opts.recent_days

Passing ==
    { i \in DOMAIN usage :
        /\ PassesRange(usage[i])
        /\ report.kind = "blocks" => InRecentDays(usage[i]) }

TotalTokens(ev) ==
    ev.input_tokens + ev.output_tokens + ev.cache_creation_tokens + ev.cache_read_tokens

\* C1: in every report (daily, weekly, monthly, sessions, blocks), for every
\* list of events and every filter, each token counter of the totals (input,
\* output, cache creation, cache read, total) is the sum of that counter over
\* exactly the events the report's filter keeps, and so is the sum of that
\* counter over the rows: a kept event is in one row and once in the totals,
\* an excluded event in none.
C1_TotalsAreFilteredSums ==
    rpc = "reported" =>
        /\ \A c \in Counters :
              /\ report.totals[c] = SumOver(Passing, [i \in Passing |-> usage[i][c]])
              /\ SumOver(DOMAIN report.rows, [r \in DOMAIN report.rows |-> report.rows[r][c]])
                   = report.totals[c]
        /\ report.totals.total_tokens
              = SumOver(Passing, [i \in Passing |-> TotalTokens(usage[i])])
        /\ SumOver(DOMAIN report.rows,
                   [r \in DOMAIN report.rows |-> report.rows[r].total_tokens])
              = report.totals.total_tokens

\* a blocks report of two rows or more that leaves out an event of the
\* project and the date range asked for, because it is older than recent_days
C1_Witness ==
    /\ rpc = "reported"
    /\ report.kind = "blocks"
    /\ Len(report.rows) >= 2
    /\ \E i \in DOMAIN usage : PassesRange(usage[i]) /\ i \notin Passing
    /\ report.totals.total_tokens > 0

\* the events the daily, weekly, monthly and sessions reports keep
Kept == { i \in DOMAIN usage : PassesRange(usage[i]) }

\* the weekday of a date, 0 for Sunday; 2024-12-01, day 20058, was a Sunday
Weekday(date) == (date - 20058) % 7

StartDay == IF opts.start_of_week = "sunday" THEN 0 ELSE 1

\* C14: week_start_for_date(d, s) is a date w on weekday s with
\* 0 <= d - w <= 6, and every date of [w, w+6] has the same week start w, so
\* the seven days of a week are in one weekly row; checked for the local date
\* of every event of a weekly report and the seven days of its week.
C14_WeekStartIsStable ==
    (rpc = "reported" /\ report.kind = "weekly") =>
        \A i \in Kept :
            LET d == local_date(usage[i], opts.tz)
                w == week_start_for_date(d, opts.start_of_week) IN
            /\ Weekday(w) = StartDay
            /\ 0 <= d - w /\ d - w <= 6
            /\ \A x \in w..(w + 6) : week_start_for_date(x, opts.start_of_week) = w
            /\ \E r \in DOMAIN report.rows : report.rows[r].key.date = civil(w)
            /\ \A j \in Kept :
                  (local_date(usage[j], opts.tz) \in w..(w + 6)) <=>
                  (civil(week_start_for_date(local_date(usage[j], opts.tz),
                                             opts.start_of_week)) = civil(w))

\* a weekly report, weeks from Monday, with one row for events of a Saturday
\* and the Sunday after it and another row for the Monday after that
C14_Witness ==
    /\ rpc = "reported"
    /\ report.kind = "weekly"
    /\ opts.start_of_week = "monday"
    /\ ~opts.instances
    /\ Len(report.rows) = 2
    /\ \E i, j, k \in Kept :
          /\ Weekday(local_date(usage[i], opts.tz)) = 6
          /\ local_date(usage[j], opts.tz) = local_date(usage[i], opts.tz) + 1
          /\ local_date(usage[k], opts.tz) = local_date(usage[i], opts.tz) + 2

\* the instant a date-time text with offset stands for
Instant(text) == text.local - text.offset

BlockHours == IF opts.session_length_hours < 1 THEN 1 ELSE opts.session_length_hours

\* the local minute at which the block of event ev starts: on the event's
\* local date, at hour N * floor(h / N)
ClaimedBlockStart(ev) ==
    LET local == ev.timestamp + utc_offset(opts.tz, ev.timestamp)
        h     == (local % 1440) \div 60 IN
    (local \div 1440) * 1440 + BlockHours * (h \div BlockHours) * 60

\* C15 (as claimed): in a blocks report with block length N (at least 1), an
\* event with local hour h is in the row whose block starts on the event's
\* local date at hour N * floor(h / N), minute 0; the row's block_end is N
\* hours after its block_start, and the event's time t satisfies
\* block_start <= t < block_end.
C15_EventInsideItsBlock ==
    (rpc = "reported" /\ report.kind = "blocks") =>
        \A i \in Passing :
            \E r \in DOMAIN report.rows :
                LET row == report.rows[r]
                    same == { j \in Passing :
                                ClaimedBlockStart(usage[j]) = ClaimedBlockStart(usage[i]) } IN
                /\ row.block_start.local = ClaimedBlockStart(usage[i])
                /\ row.total_tokens = SumOver(same, [j \in same |-> TotalTokens(usage[j])])
                /\ Instant(row.block_end) = Instant(row.block_start) + BlockHours * 60
                /\ Instant(row.block_start) <= usage[i].timestamp
                /\ usage[i].timestamp < Instant(row.block_end)

\* the local date of the latest event of all
LatestDate ==
    CHOOSE d \in { local_date(usage[i], opts.tz) : i \in DOMAIN usage } :
        \A i \in DOMAIN usage : local_date(usage[i], opts.tz) <= d

\* the events of the most recent D dates, the latest event's date included,
\* that pass the project and date filter
InRecentDates ==
    { i \in DOMAIN usage :
        /\ PassesRange(usage[i])
        /\ local_date(usage[i], opts.tz) > LatestDate - opts.recent_days }

\* C16 (as claimed): in a blocks report with recent-days D (1 or more), only
\* the events of the most recent D dates, counted back from and including the
\* latest event's local date, are in the rows: an event D or more days older
\* than the latest contributes to no row, and the rows are of at most D dates.
C16_OnlyRecentDates ==
    (rpc = "reported" /\ report.kind = "blocks" /\ opts.recent_days >= 1) =>
        /\ report.totals.total_tokens
              = SumOver(InRecentDates, [i \in InRecentDates |-> TotalTokens(usage[i])])
        /\ Cardinality({ report.rows[r].block_start.local \div 1440 :
                            r \in DOMAIN report.rows }) <= opts.recent_days

\* the report of the kind and the options of the one built, from other events
Rebuilt(evs) ==
    CASE report.kind = "daily" ->
           build_daily_report(evs, opts.tz, opts.range, opts.order, opts.instances,
                              opts.breakdown)
      [] report.kind = "weekly" ->
           build_weekly_report(evs, opts.tz, opts.range, opts.order, opts.instances,
                               opts.start_of_week, opts.breakdown)
      [] report.kind = "monthly" ->
           build_monthly_report(evs, opts.tz, opts.range, opts.order, opts.instances,
                                opts.breakdown)
      [] report.kind = "sessions" ->
           build_session_report(evs, opts.tz, opts.range, opts.breakdown)
      [] report.kind = "blocks" ->
           build_blocks_report(evs, opts.tz, opts.range, opts.recent_days,
                               opts.session_length_hours, opts.breakdown)

\* the rows an event is counted in: for a session row its session, for the
\* other rows its project
RowsOf(ev) ==
    { r \in DOMAIN report.rows :
        /\ ev.model # <<>> => ev.model[1] \in report.rows[r].models
        /\ IF report.kind = "sessions"
           THEN report.rows[r].session_id = ev.session_id
           ELSE ev.project \in report.rows[r].projects }

\* C17: an event contributes to a daily, weekly, monthly or sessions row if
\* and only if its project is the project asked for (when one is) and its
\* local date d satisfies since <= d <= until, each bound applied when set and
\* both inclusive; the events left out change no row: the report is the one
\* built from the kept events alone.
C17_FilterIsExact ==
    (rpc = "reported" /\ report.kind \in {"daily", "weekly", "monthly", "sessions"}) =>
        /\ report = Rebuilt(SelectSeq(usage, PassesRange))
        /\ \A c \in Counters :
              report.totals[c] = SumOver(Kept, [i \in Kept |-> usage[i][c]])
        /\ \A i \in Kept : RowsOf(usage[i]) # {}
        /\ Kept = {} => report.rows = <<>>

\* a daily report with since and until: events on the since date and on the
\* until date are kept, in two rows, and an event of an earlier date is left out
C17_Witness ==
    /\ rpc = "reported"
    /\ report.kind = "daily"
    /\ opts.range.since # <<>>
    /\ opts.range.until # <<>>
    /\ \E i, j \in Kept :
          /\ local_date(usage[i], opts.tz) = opts.range.since[1]
          /\ local_date(usage[j], opts.tz) = opts.range.until[1]
    /\ \E i \in DOMAIN usage :
          local_date(usage[i], opts.tz) < opts.range.since[1]
    /\ Len(report.rows) = 2

\* the four reports of the same events under the options of the one built
DailyReport ==
    build_daily_report(usage, opts.tz, opts.range, opts.order, opts.instances,
                       opts.breakdown)
WeeklyReport ==
    build_weekly_report(usage, opts.tz, opts.range, opts.order, opts.instances,
                        opts.start_of_week, opts.breakdown)
MonthlyReport ==
    build_monthly_report(usage, opts.tz, opts.range, opts.order, opts.instances,
                         opts.breakdown)
SessionsReport == build_session_report(usage, opts.tz, opts.range, opts.breakdown)

\* the dates the events of the model can have
ModelDates == 20020..20070

\* the daily rows, among `rows`, that belong to a weekly or monthly row: of
\* the same project (when rows are split per project) and of a date in Dates,
\* a set of <<year, month, day>>
DailyRowsOf(rows, row, Dates) ==
    { r \in DOMAIN rows :
        /\ rows[r].key.project = row.key.project
        /\ rows[r].key.date \in Dates }

\* the row's token sums are the sums of the daily rows of the dates Dates
IsSumOfDailyRows(rows, row, Dates) ==
    LET days == DailyRowsOf(rows, row, Dates) IN
    \A c \in Counters \cup {"total_tokens"} :
        row[c] = SumOver(days, [r \in days |-> rows[r][c]])

\* C18: for the same events and the same filter the daily, weekly, monthly
\* and sessions reports have the same totals; each monthly row's token sums
\* are the sums of the daily rows of the dates of that month, and each weekly
\* row's sums the sums of the daily rows of its seven days.
C18_ReportsAgree ==
    (rpc = "reported" /\ report.kind \in {"weekly", "monthly"}) =>
        LET daily == DailyReport IN
        /\ daily.totals = report.totals
        /\ SessionsReport.totals = report.totals
        /\ WeeklyReport.totals = MonthlyReport.totals
        /\ report.kind = "monthly" =>
              \A m \in DOMAIN report.rows :
                  IsSumOfDailyRows(daily.rows, report.rows[m],
                      { civil(x) : x \in { d \in ModelDates :
                            SubSeq(civil(d), 1, 2) = report.rows[m].key.date } })
        /\ report.kind = "weekly" =>
              \A w \in DOMAIN report.rows :
                  LET start == CHOOSE x \in ModelDates : civil(x) = report.rows[w].key.date IN
                  IsSumOfDailyRows(daily.rows, report.rows[w],
                      { civil(x) : x \in start..(start + 6) })

\* a monthly report of two months, one of them with two daily rows
C18_Witness ==
    /\ rpc = "reported"
    /\ report.kind = "monthly"
    /\ Len(report.rows) = 2
    /\ Len(DailyReport.rows) = 3
    /\ report.totals.total_tokens > 0

\* the latest timestamp of the kept events of a session
LastActivity(session_id) ==
    LET S == { usage[i].timestamp : i \in { j \in Kept : usage[j].session_id = session_id } }
    IN CHOOSE t \in S : \A u \in S : u <= t

\* C19: the rows are in the report's order: daily, weekly and monthly rows by
\* group key, ascending for asc and descending for desc or no order given,
\* also when the rows are split per project; session rows by last activity
\* (the latest timestamp of the session's events), latest first; block rows
\* by block start, earliest first.
C19_RowsAreSorted ==
    rpc = "reported" =>
        \A r, q \in DOMAIN report.rows :
            r < q =>
                CASE report.kind \in {"daily", "weekly", "monthly"} ->
                       IF opts.order = "asc"
                       THEN LexLess(key_rank(report.rows[r].key), key_rank(report.rows[q].key))
                       ELSE /\ opts.order = resolve_order(None, None, None)
                            /\ LexLess(key_rank(report.rows[q].key),
                                       key_rank(report.rows[r].key))
                  [] report.kind = "sessions" ->
                       /\ report.rows[r].last_activity >= report.rows[q].last_activity
                       /\ report.rows[r].last_activity
                             = LastActivity(report.rows[r].session_id)
                       /\ report.rows[q].last_activity
                             = LastActivity(report.rows[q].session_id)
                  [] report.kind = "blocks" ->
                       Instant(report.rows[r].block_start)
                          < Instant(report.rows[q].block_start)

\* a daily report split per project, latest first, with two rows of one date
C19_Witness ==
    /\ rpc = "reported"
    /\ report.kind = "daily"
    /\ opts.order = "desc"
    /\ opts.instances
    /\ Len(report.rows) = 3
    /\ report.rows[2].key.date = report.rows[3].key.date
    /\ report.rows[2].key.project = <<"pb">>
    /\ report.rows[3].key.project = <<"pa">>

\* the kept events of a model
OfModel(m) == { i \in Passing : usage[i].model = <<m>> }

\* the models of the kept events
KeptModels == { usage[i].model[1] : i \in { j \in Passing : usage[j].model # <<>> } }

\* the report's breakdown has, for every model of a kept event and no other,
\* one entry with the sums over the kept events of that model
BreakdownIsByModel ==
    /\ { report.model_breakdowns[b].model : b \in DOMAIN report.model_breakdowns }
          = KeptModels
    /\ Len(report.model_breakdowns) = Cardinality(KeptModels)
    /\ \A b \in DOMAIN report.model_breakdowns :
          LET mb == report.model_breakdowns[b]
              S  == OfModel(mb.model) IN
          /\ \A c \in Counters : mb[c] = SumOver(S, [i \in S |-> usage[i][c]])
          /\ mb.total_tokens = SumOver(S, [i \in S |-> TotalTokens(usage[i])])

\* C20 (as claimed): the report-level model breakdown, the fold of every
\* row's per-model breakdown into one map keyed by model, is the grouping of
\* the kept events by model alone: for every model the four token sums and
\* the total are the sums over the kept events of that model, and the
\* breakdown accounts for every kept event (its entries add up to the totals).
C20_BreakdownCoversEveryEvent ==
    (rpc = "reported" /\ opts.breakdown) =>
        /\ BreakdownIsByModel
        /\ SumOver(DOMAIN report.model_breakdowns,
                   [b \in DOMAIN report.model_breakdowns |->
                       report.model_breakdowns[b].total_tokens])
              = report.totals.total_tokens

\* the event list in every order
Reorderings(evs) ==
    { [i \in DOMAIN evs |-> evs[p[i]]] : p \in Permutations_of(DOMAIN evs) }

\* C21 (as claimed): every report is independent of the order of the input
\* events: for every permutation of the same event list the daily, weekly,
\* monthly, sessions and blocks reports have the same rows (keys, token sums,
\* model sets, project or projects field, last activity) and the same totals.
C21_ReportIgnoresEventOrder ==
    rpc = "reported" =>
        \A evs \in Reorderings(usage) :
            LET again == Rebuilt(evs) IN
            /\ again.rows = report.rows
            /\ again.totals = report.totals

\* C30 (as claimed): in every blocks report the time windows
\* [block_start, block_end) of two distinct rows do not overlap, for every
\* block length N >= 1 (also one that does not divide 24, such as the default
\* 5) and every set of events.
C30_BlocksDoNotOverlap ==
    (rpc = "reported" /\ report.kind = "blocks") =>
        \A r, q \in DOMAIN report.rows :
            r # q =>
                \/ Instant(report.rows[r].block_end) <= Instant(report.rows[q].block_start)
                \/ Instant(report.rows[q].block_end) <= Instant(report.rows[r].block_start)

----------------------------------------------------------------------------
(* More claims about the live source *)

\* what a whole refresh cycle over the files fs makes of the source's offsets
\* and events
Cycle(fs, offs, evs) ==
    refresh_files(fs, Len(fs), [offsets |-> offs, events |-> evs, rewound |-> {},
                                discovered |-> {}, start |-> <<>>])

C26_OffsetIsFileLength ==
    (last.op = "refresh" /\ last.ok) =>
        \A f \in present : f \in DOMAIN offsets /\ offsets[f] = Len(content[f])

C26_Witness ==
    /\ last.op = "refresh"
    /\ last.ok
    /\ \E f \in present :
          /\ HasOpenLastLine(f)
          /\ HalfWritten(content[f])
          /\ last.start[f] < CompleteEnd(content[f])
          /\ CompleteEnd(content[f]) < offsets[f]
          /\ UsageLines(content[f]) < Len(lines(content[f]))

\* C27: a log file that was not there when the live source was created is
\* read from byte 0 by the first refresh that finds it: after that refresh
\* the file has a recorded offset and every line of it that holds a usage
\* record is in the event store exactly once.
C27_NewFileReadFromStart ==
    last.op = "refresh" =>
        \A f \in last.discovered :
            /\ last.start[f] = 0
            /\ f \in DOMAIN offsets
            /\ CountOf(f, events) = UsageLines(content[f])

C27_Witness ==
    /\ last.op = "refresh"
    /\ \E f \in last.discovered :
          /\ f \notin Range(files)
          /\ CompleteUsageLines(content[f]) >= 1
          /\ Len(events) > CountOf(f, events)

\* C28 (as claimed): when a tracked file is rotated between two refreshes
\* (its content replaced by other content, not a continuation of the old),
\* the next refresh detects it and reads the new content from byte 0, for
\* every length of the new content, also one at least as long as the offset
\* recorded for the old content.
C28_RotationIsDetected ==
    [][last'.op = "refresh" =>
          \A f \in DOMAIN last'.start :
              (/\ f \in DOMAIN offsets
               /\ replaced[f] # <<>>
               /\ ~IsPrefix(replaced[f][1], content[f])) =>
                  last'.start[f] = 0]_vars

----------------------------------------------------------------------------
(* The batch path and the live path *)

\* C29 (as claimed): the batch path and the live path normalize the same
\* content to the same events: for every file made of complete lines,
\* load_events on the file and read_new_events on the file from offset 0
\* return the same list of events, also when a line's usage object has no
\* input_tokens field.
C29_BatchAndLiveAgree ==
    ppc = "ingested" => loaded = tailed

----------------------------------------------------------------------------
(* main, lines 456-515: from the command line to the report *)

\* tz_str.parse::<Tz>(): the names of the time zone database parse
parse_timezone(tz_raw) ==
    IF \E tz \in Timezones : tz.name = tz_raw THEN Some(tz_raw) ELSE None

DIGITS == {"0", "1", "2", "3", "4", "5", "6", "7", "8", "9"}

\* NaiveDate::parse_from_str(s, "%Y-%m-%d") on a text of ten characters: Ok
\* when it is four digits, "-", two digits, "-", two digits; the texts of the
\* model that are of this form name a day of the calendar
parse_from_str(str) ==
    /\ Len(str) = 10
    /\ \A i \in 1..10 : IF i \in {5, 8} THEN str[i] = "-" ELSE str[i] \in DIGITS

\* parse_date_opt: "ok" or "err" (the date itself is not used here)
parse_date_opt(text) ==
    IF text = None THEN "ok"
    ELSE IF parse_from_str(text[1]) THEN "ok" ELSE "err"

\* resolve_range: since, then until (parse_date_opt(..)?)
resolve_range(since, until) ==
    IF parse_date_opt(since) = "err" THEN "err" ELSE parse_date_opt(until)

\* load_pricing(offline): the source of the table returned.  The bundled
\* table is text compiled into the program and parses.
load_pricing(offline, cache, remote) ==
    IF offline THEN "bundled"
    ELSE IF cache = "valid" THEN "cache"
    ELSE IF remote = "ok" THEN "remote"
    ELSE IF cache = "valid" THEN "cache"
    ELSE "bundled"

\* collect_jsonl_files under one data directory: a root that does not exist
\* is skipped, and so is every entry WalkDir cannot read
\* (filter_map(|e| e.ok())); the number of .jsonl files found
jsonl_files_found(w) == IF w.root = "readable" THEN w.jsonl_files ELSE 0

DateTexts ==
    { None,
      Some(<<"2", "0", "2", "4", "-", "1", "2", "-", "0", "1">>),
      Some(<<"1", "2", "/", "0", "1", "/", "2", "0", "2", "4">>) }

CommandLines ==
    [timezone : {"UTC", "Asia/Tokyo", "Mars/Olympus"},
     since    : DateTexts,
     until    : DateTexts,
     offline  : BOOLEAN]

\* usage_lines: the lines with a usage record in the log files
Worlds ==
    { w \in [root        : {"missing", "unreadable", "readable"},
             jsonl_files : 0..1,
             usage_lines : 0..1,
             cache       : {"missing", "unparsable", "valid"},
             remote      : {"ok", "down"}] :
        /\ w.root = "missing" => w.jsonl_files = 0
        /\ w.jsonl_files = 0 => w.usage_lines = 0 }

\* main returns
Return(code, printed) ==
    /\ mpc' = "returned"
    /\ status' = code
    /\ out' = printed

\* line 468: parse_timezone(Some(tz_raw))?
main_timezone ==
    /\ mpc = "start"
    /\ IF parse_timezone(argv.timezone) = None
       THEN Return("error", "nothing")
       ELSE mpc' = "pricing" /\ UNCHANGED <<status, out>>
    /\ UNCHANGED <<argv, world, table, notMain>>

\* line 485: build_pricing_index(load_pricing(offline_pricing)?); a fetched
\* table is saved to the cache file when the file can be written
main_pricing ==
    /\ mpc = "pricing"
    /\ LET source == load_pricing(argv.offline, world.cache, world.remote) IN
       /\ table' = Some(source)
       /\ \/ world' = world
          \/ source = "remote" /\ world' = [world EXCEPT !.cache = "valid"]
    /\ mpc' = "files"
    /\ UNCHANGED <<argv, status, out, notMain>>

\* lines 489-498: resolve_data_dirs, collect_jsonl_files, files.is_empty()
main_files ==
    /\ mpc = "files"
    /\ IF jsonl_files_found(world) = 0
       THEN Return("ok", "no-files")
       ELSE mpc' = "events" /\ UNCHANGED <<status, out>>
    /\ UNCHANGED <<argv, world, table, notMain>>

\* lines 500-504: load_events, events.is_empty()
main_events ==
    /\ mpc = "events"
    /\ IF world.usage_lines = 0
       THEN Return("ok", "no-usage")
       ELSE mpc' = "range" /\ UNCHANGED <<status, out>>
    /\ UNCHANGED <<argv, world, table, notMain>>

\* lines 511-515 (and the same in every command): resolve_range(..)?
main_range ==
    /\ mpc = "range"
    /\ IF resolve_range(argv.since, argv.until) = "err"
       THEN Return("error", "nothing")
       ELSE mpc' = "report" /\ UNCHANGED <<status, out>>
    /\ UNCHANGED <<argv, world, table, notMain>>

\* the report is built and printed
main_report ==
    /\ mpc = "report"
    /\ Return("ok", "report")
    /\ UNCHANGED <<argv, world, table, notMain>>

InitMain ==
    /\ LiveIdle
    /\ PricingIdle
    /\ ReportIdle
    /\ TuiIdle
    /\ mpc = "start"
    /\ argv \in CommandLines
    /\ world \in Worlds
    /\ table = <<>>
    /\ status = "running"
    /\ out = "nothing"

NextMain ==
    \/ main_timezone
    \/ main_pricing
    \/ main_files
    \/ main_events
    \/ main_range
    \/ main_report

SpecMain == InitMain /\ [][NextMain]_vars

\* C23 (as claimed): whenever the data directory root is unreadable or
\* missing, the timezone string is invalid, or a since/until filter is not a
\* valid YYYY-MM-DD date, the run ends with an error and emits no report,
\* whatever the other inputs are (also when no log file or no usage event is
\* found).
C23_BadInputEndsInError ==
    (/\ mpc = "returned"
     /\ \/ world.root \in {"missing", "unreadable"}
        \/ parse_timezone(argv.timezone) = None
        \/ parse_date_opt(argv.since) = "err"
        \/ parse_date_opt(argv.until) = "err") =>
        /\ status = "error"
        /\ out # "report"

\* remote first, then the cache file, then the bundled table
ClaimedSource(cache, remote) ==
    IF remote = "ok" THEN "remote"
    ELSE IF cache = "valid" THEN "cache"
    ELSE "bundled"

\* C24 (as claimed): when not offline, load_pricing takes the table from the
\* remote dataset whenever the fetch succeeds, from the cache file only when
\* the fetch fails, and from the bundled table only when the fetch fails and
\* the cache is missing or unparsable; a failing fetch alone never makes
\* load_pricing return an error.
C24_RemoteThenCacheThenBundled ==
    [][(table' # table /\ ~argv.offline) =>
          /\ table' # None
          /\ table'[1] = ClaimedSource(world.cache, world.remote)]_vars

----------------------------------------------------------------------------
(* run_blocks_live_tui, lines 2055-2113 *)

MaxTermEvents == 2
MaxWrites == 2

LogNames == {"f1", "f2"}

\* crossterm events: presses and releases of keys
TermEvents ==
    [code : {"q", "Esc", "x"}, kind : {"Press", "Release"}]

\* lines 2093-2094: a press of q or Esc
is_quit(k) == k.kind = "Press" /\ k.code \in {"q", "Esc"}

\* LiveEventSource::refresh over the first n files of fs, in lines: the new
\* lines of a file are appended and its offset moved in one go (main.rs
\* 1194-1198)
RECURSIVE refresh_store(_, _, _, _)
refresh_store(fs, n, st, new) ==
    IF n = 0 THEN st
    ELSE LET f == Head(fs) IN
         refresh_store(Tail(fs), n - 1,
             [st EXCEPT ![f] = [events |-> @.events + new[f],
                                offset |-> @.offset + new[f]]],
             new)

\* the lines of the first n files of fs are read
RECURSIVE read_lines(_, _, _)
read_lines(fs, n, new) ==
    IF n = 0 THEN new
    ELSE read_lines(Tail(fs), n - 1, [new EXCEPT ![Head(fs)] = 0])

\* the closure returns (or a set-up call fails): err is kept for the caller
Leave(to, r) ==
    /\ tpc' = to
    /\ tres' = r

\* line 2068: enable_raw_mode().context("enable raw mode")?
enable_raw_mode ==
    /\ tpc = "raw"
    /\ \/ raw_mode' = TRUE /\ tpc' = "screen" /\ UNCHANGED tres
       \/ Leave("returned", "err") /\ UNCHANGED raw_mode
    /\ UNCHANGED <<alternate_screen, term_events, rx, unread, store, quit_read, notTui>>

\* lines 2069-2071: stdout.execute(EnterAlternateScreen).context(..)?
enter_alternate_screen ==
    /\ tpc = "screen"
    /\ \/ alternate_screen' = TRUE /\ tpc' = "terminal" /\ UNCHANGED tres
       \/ Leave("returned", "err") /\ UNCHANGED alternate_screen
    /\ UNCHANGED <<raw_mode, term_events, rx, unread, store, quit_read, notTui>>

\* lines 2072-2074: Terminal::new(backend).context("init terminal")?
terminal_new ==
    /\ tpc = "terminal"
    /\ \/ tpc' = "refresh" /\ UNCHANGED tres
       \/ Leave("returned", "err")
    /\ UNCHANGED <<raw_mode, alternate_screen, term_events, rx, unread, store, quit_read,
                   notTui>>

\* line 2078: live_source.refresh()?
loop_refresh ==
    /\ tpc = "refresh"
    /\ \E fs \in Permutations_of(LogNames) :
       \E n \in 0..Len(fs) :
          /\ store' = refresh_store(fs, n, store, unread)
          /\ unread' = read_lines(fs, n, unread)
          /\ IF n = Len(fs) THEN tpc' = "draw" /\ UNCHANGED tres
             ELSE Leave("restore", "err")
    /\ UNCHANGED <<raw_mode, alternate_screen, term_events, rx, quit_read, notTui>>

\* lines 2079-2089: build_blocks_report(..)? and terminal.draw(..)?
draw ==
    /\ tpc = "draw"
    /\ \/ tpc' = "poll" /\ UNCHANGED tres
       \/ Leave("restore", "err")
    /\ UNCHANGED <<raw_mode, alternate_screen, term_events, rx, unread, store, quit_read,
                   notTui>>

\* lines 2091-2099: while event::poll(100 ms)? { event::read()? .. }
poll ==
    /\ tpc = "poll"
    /\ \/ /\ term_events = <<>>
          /\ tpc' = "wait"
          /\ UNCHANGED <<tres, term_events, quit_read>>
       \/ /\ term_events # <<>>
          /\ term_events' = Tail(term_events)
          /\ IF is_quit(Head(term_events))
             THEN quit_read' = TRUE /\ Leave("restore", "ok")
             ELSE UNCHANGED <<tpc, tres, quit_read>>
       \/ /\ Leave("restore", "err")
          /\ UNCHANGED <<term_events, quit_read>>
    /\ UNCHANGED <<raw_mode, alternate_screen, rx, unread, store, notTui>>

\* lines 2101-2104: rx.recv_timeout(refresh_seconds)
recv_timeout ==
    /\ tpc = "wait"
    /\ IF rx = "disconnected"
       THEN Leave("restore", "ok") /\ UNCHANGED rx
       ELSE tpc' = "refresh" /\ rx' = "empty" /\ UNCHANGED tres
    /\ UNCHANGED <<raw_mode, alternate_screen, term_events, unread, store, quit_read, notTui>>

\* lines 2109-2112: disable_raw_mode().ok(), LeaveAlternateScreen, show_cursor
restore ==
    /\ tpc = "restore"
    /\ raw_mode' = FALSE
    /\ alternate_screen' = FALSE
    /\ tpc' = "returned"
    /\ UNCHANGED <<term_events, rx, unread, store, quit_read, tres, notTui>>

Running == tpc \notin {"idle", "returned"}

\* the user presses or releases a key
key(k) ==
    /\ Running
    /\ Len(term_events) < MaxTermEvents
    /\ term_events' = Append(term_events, k)
    /\ UNCHANGED <<tpc, raw_mode, alternate_screen, rx, unread, store, quit_read, tres,
                   notTui>>

\* a line is appended to a log file; the watcher sends a notification
\* (watch_data_dirs, line 1082)
log_write(f) ==
    /\ Running
    /\ unread[f] + store[f].offset < MaxWrites
    /\ unread' = [unread EXCEPT ![f] = @ + 1]
    /\ rx' = IF rx = "disconnected" THEN rx ELSE "notified"
    /\ UNCHANGED <<tpc, raw_mode, alternate_screen, term_events, store, quit_read, tres,
                   notTui>>

\* the watcher goes away
watcher_drop ==
    /\ Running
    /\ rx # "disconnected"
    /\ rx' = "disconnected"
    /\ UNCHANGED <<tpc, raw_mode, alternate_screen, term_events, unread, store, quit_read,
                   tres, notTui>>

InitTui ==
    /\ LiveIdle
    /\ PricingIdle
    /\ ReportIdle
    /\ MainIdle
    /\ tpc = "raw"
    /\ raw_mode = FALSE
    /\ alternate_screen = FALSE
    /\ term_events = <<>>
    /\ rx = "empty"
    /\ unread = [f \in LogNames |-> 0]
    /\ store = [f \in LogNames |-> [events |-> 0, offset |-> 0]]
    /\ quit_read = FALSE
    /\ tres = "none"

NextTui ==
    \/ enable_raw_mode
    \/ enter_alternate_screen
    \/ terminal_new
    \/ loop_refresh
    \/ draw
    \/ poll
    \/ recv_timeout
    \/ restore
    \/ \E k \in TermEvents : key(k)
    \/ \E f \in LogNames : log_write(f)
    \/ watcher_drop

SpecTui == InitTui /\ [][NextTui]_vars

\* C25 (as claimed): in the live TUI loop a quit key (q or Esc) read during
\* an iteration ends the loop with success before another refresh starts; on
\* every way out of run_blocks_live_tui once raw mode has been enabled (quit,
\* watcher channel disconnect, refresh or draw error, or a failure while the
\* terminal is set up) raw mode is disabled and the alternate screen is left;
\* and the event store is never left half-updated (a file's events are there
\* exactly when its offset covers them).
C25_QuitAndCleanup ==
    /\ quit_read => (tpc \in {"restore", "returned"} /\ tres = "ok")
    /\ tpc = "returned" => (~raw_mode /\ ~alternate_screen)
    /\ tpc # "idle" => \A f \in LogNames : store[f].events = store[f].offset

====
